---- MODULE Spec2Model ----
(***************************************************************************)
(* opsbrew: the recipe runner (cmd "brew run") and the porcelain status    *)
(* parser (git.ParseStatus).                                               *)
(*                                                                         *)
(* Text is modelled as a sequence of one-character strings, so that        *)
(* strings.Fields, strings.ToLower, strings.TrimSpace, strings.Split,      *)
(* fmt.Scanln and the slicing line[:2], line[3:] are computed character by *)
(* character.                                                              *)
(***************************************************************************)
EXTENDS Integers, Sequences, FiniteSets, TLC

(***************************************************************************)
(* Bounds of the model.                                                    *)
(***************************************************************************)
MaxCommands == 3

MaxAnswerLen == 3

MaxLines == 2

(***************************************************************************)
(* Text helpers.                                                           *)
(***************************************************************************)
SeqUpTo(S, n) == UNION {[1..k -> S] : k \in 0..n}

IsSpace(c) == c \in {" ", "\t", "\n", "\r"}

\* strings.ToLower on one character (the upper-case letters of AnswerChars
\* and of "YES").
Lower(c) ==
  CASE c = "Y" -> "y"
    [] c = "E" -> "e"
    [] c = "S" -> "s"
    [] OTHER -> c

ToLower(s) == [k \in 1..Len(s) |-> Lower(s[k])]

\* The index of the first character of s at or after i that satisfies
\* (space = TRUE) / does not satisfy (space = FALSE) IsSpace; Len(s)+1 if none.
RECURSIVE Scan(_, _, _)
Scan(s, i, space) ==
  IF i > Len(s) THEN Len(s) + 1
  ELSE IF IsSpace(s[i]) = space THEN i
  ELSE Scan(s, i + 1, space)

\* strings.Fields: the maximal runs of non-space characters of s, in order.
RECURSIVE FieldsFrom(_, _)
FieldsFrom(s, i) ==
  LET b == Scan(s, i, FALSE)
      e == Scan(s, b, TRUE)
  IN IF b > Len(s) THEN <<>>
     ELSE <<SubSeq(s, b, e - 1)>> \o FieldsFrom(s, e)

Fields(s) == FieldsFrom(s, 1)

(***************************************************************************)
(* Messages: a format and its arguments, as the code passes them to        *)
(* fmt.Printf, color.X and fmt.Errorf.                                     *)
(***************************************************************************)
ArgS(name) == [k |-> "s", s |-> name, d |-> 0, t |-> <<>>]

ArgD(n) == [k |-> "d", s |-> "", d |-> n, t |-> <<>>]

ArgT(text) == [k |-> "s", s |-> "", d |-> 0, t |-> text]

ArgW(cause) == [k |-> "w", s |-> cause, d |-> 0, t |-> <<>>]

Msg(f, a) == [fmt |-> f, args |-> a]

NoError == Msg("", <<>>)

(***************************************************************************)
(* fmt.Scanln(&response) on one line of standard input.  in.line holds the *)
(* characters before the line end, in.eof tells that the input ended       *)
(* without a newline.  The operand is set to the first word; the error is  *)
(* non-nil when there is no word or when anything follows the word.        *)
(***************************************************************************)
Scanln(in) ==
  LET b == Scan(in.line, 1, FALSE)
      e == Scan(in.line, b, TRUE)
  IN  IF b > Len(in.line)
        THEN [value |-> <<>>,
              err |-> IF in.eof THEN Msg("EOF", <<>>)
                                ELSE Msg("unexpected newline", <<>>)]
      ELSE IF Scan(in.line, e, FALSE) <= Len(in.line)
        THEN [value |-> SubSeq(in.line, b, e - 1),
              err |-> Msg("expected newline", <<>>)]
      ELSE [value |-> SubSeq(in.line, b, e - 1), err |-> NoError]

(***************************************************************************)
(* git.ParseStatus.                                                        *)
(***************************************************************************)
\* strings.TrimSpace: s without its leading and trailing white space.
RECURSIVE ScanBack(_, _)
ScanBack(s, i) ==
  IF i < 1 THEN 0
  ELSE IF ~IsSpace(s[i]) THEN i
  ELSE ScanBack(s, i - 1)

TrimSpace(s) == SubSeq(s, Scan(s, 1, FALSE), ScanBack(s, Len(s)))

\* strings.Split(s, "\n"): the pieces between newlines; one piece more than
\* there are newlines.
RECURSIVE SplitFrom(_, _, _)
SplitFrom(s, i, piece) ==
  IF i > Len(s) THEN <<piece>>
  ELSE IF s[i] = "\n" THEN <<piece>> \o SplitFrom(s, i + 1, <<>>)
  ELSE SplitFrom(s, i + 1, Append(piece, s[i]))

SplitLines(s) == SplitFrom(s, 1, <<>>)

Buckets == {"Modified", "Staged", "Untracked", "Deleted", "Renamed", "Conflicted"}

\* &GitStatus{}
EmptyStatus == [b \in Buckets |-> <<>>]

\* The switch on xy: the bucket appended to, "" when no case matches.
Bucket(xy) ==
  IF xy[1] = "M" THEN (IF xy[2] = "M" THEN "Modified" ELSE "Staged")
  ELSE IF xy[1] = "A" THEN "Staged"
  ELSE IF xy[1] = "D" THEN "Deleted"
  ELSE IF xy[1] = "R" THEN "Renamed"
  ELSE IF xy = <<"?", "?">> THEN "Untracked"
  ELSE IF xy \in {<<"U", "U">>, <<"A", "A">>, <<"D", "D">>} THEN "Conflicted"
  ELSE ""

\* A loop body that puts the new entry in front of its bucket.
ParseLinePrepends(st, line) ==
  IF line = <<>> THEN st
  ELSE IF Len(line) < 3 THEN st
  ELSE LET xy == SubSeq(line, 1, 2)
           path == SubSeq(line, 4, Len(line))
           fileStatus == [Path |-> path, Status |-> xy]
       IN  IF Bucket(xy) = "" THEN st
           ELSE [st EXCEPT ![Bucket(xy)] = <<fileStatus>> \o @]

\* One iteration of the loop: st after the line was handled.
ParseLine(st, line) ==
  IF line = <<>> THEN st
  ELSE IF Len(line) < 3 THEN st
  ELSE LET xy == SubSeq(line, 1, 2)
           path == SubSeq(line, 4, Len(line))
           fileStatus == [Path |-> path, Status |-> xy]
       IN  IF Bucket(xy) = "" THEN st
           ELSE [st EXCEPT ![Bucket(xy)] = Append(@, fileStatus)]

\* The loop over lines, from line i on.
RECURSIVE ParseLines(_, _, _)
ParseLines(st, lines, i) ==
  IF i > Len(lines) THEN st
  ELSE ParseLines(ParseLine(st, lines[i]), lines, i + 1)

\* lines := strings.Split(strings.TrimSpace(output), "\n")
StatusLines(text) == SplitLines(TrimSpace(text))

ParseStatus(text) == ParseLines(EmptyStatus, StatusLines(text), 1)

(***************************************************************************)
(* Inputs.                                                                 *)
(***************************************************************************)
\* Recipe command texts: one word, two words, blank.
CommandTexts == { <<"a">>, <<"b", " ", "c">>, <<" ">> }

Descriptions == {"", "daily"}

Recipes == [Description : Descriptions,
            Commands : SeqUpTo(CommandTexts, MaxCommands)]

RecipeName == "deploy"

\* cfg.Brew.Recipes: no recipe, or one recipe under RecipeName.
Stores == {<<>>} \cup {(RecipeName :> r) : r \in Recipes}

AnswerChars == {"y", "Y", "e", "s", " "}

Inputs == [line : SeqUpTo(AnswerChars, MaxAnswerLen), eof : BOOLEAN]

\* Porcelain lines: a two-character code, a separator and a path; and lines
\* too short to parse.  The line at position k of a text names path k.
FirstChars == {"M", "A", "D", "U", "R", "?", " "}

SecondChars == {"M", "A", "D", "U", "?", " "}

ShortLines == {<<>>, <<"M">>, <<" ", "M">>}

Paths == <<"a", "b", "c", "d">>

LineShapes == {<<x, y>> : x \in FirstChars, y \in SecondChars} \cup ShortLines

StatusLine(shape, k) ==
  IF shape \in ShortLines THEN shape ELSE shape \o <<" ", Paths[k]>>

RECURSIVE Join(_, _)
Join(lines, i) ==
  IF i > Len(lines) THEN <<>>
  ELSE IF i = Len(lines) THEN lines[i]
  ELSE lines[i] \o <<"\n">> \o Join(lines, i + 1)

\* "M  a.txt\nMM b.txt\n?? c.txt\nUU d.txt\n"
ExampleText ==
  <<"M", " ", " ", "a", ".", "t", "x", "t", "\n",
    "M", "M", " ", "b", ".", "t", "x", "t", "\n",
    "?", "?", " ", "c", ".", "t", "x", "t", "\n",
    "U", "U", " ", "d", ".", "t", "x", "t", "\n">>

\* Raw texts: up to MaxLines lines, with or without the final newline.
Outputs ==
  {ExampleText} \cup
  { Join([k \in 1..Len(shapes) |-> StatusLine(shapes[k], k)], 1) \o nl :
      shapes \in SeqUpTo(LineShapes, MaxLines), nl \in {<<>>, <<"\n">>} }

VARIABLES
  args,     \* positional arguments of "brew run"
  dryRun,   \* --dry-run
  confirm,  \* --confirm
  cfg,      \* the configuration GetRepoConfig returns
  state,    \* where the run is: Pending, AwaitingConfirmation, Executing, or how it ended
  answer,   \* the input lines read by the prompt (none or one)
  out,      \* the messages printed, in order
  procs,    \* the exec.Command runs: command index, argv, status
  err,      \* the error RunE returned (NoError: nil)
  output,   \* ParseStatus: the raw text
  status,   \* ParseStatus: the GitStatus returned
  parsed,   \* ParseStatus: whether it was called
  cmd,      \* the subcommand that was invoked
  file,     \* the configuration file SaveConfig writes and GetRepoConfig reads
  entry,    \* brew save, brew edit: the values entered so far
  calls,    \* resolution: the lister and picker calls made, in order
  target,   \* resolution: the target resolved (targetContext, targetPod, ...)
  flags,    \* the subcommand's own flags
  fs,       \* the file system: what each existing path holds
  ps        \* concurrent invocations: the state of each opsbrew process

vars == <<args, dryRun, confirm, cfg, state, answer, out, procs, err,
          output, status, parsed, cmd, file, entry, calls, target, flags,
          fs, ps>>

runVars == <<args, dryRun, confirm, cfg, state, answer, out, procs, err>>

parseVars == <<output, status, parsed>>

storeVars == <<cmd, file, entry, flags>>

sysVars == <<fs, ps>>

resolveVars == <<calls, target>>

\* brew save, brew edit: the recipe being entered (brew edit: the local copy
\* of the stored recipe) and the commands read so far; here nothing yet.
NoEntry == [Description |-> "", Tags |-> <<>>, Commands |-> <<>>,
            Entered |-> <<>>]

\* The flags at their defaults: brew save --description, --tags; klogs
\* --follow, --tail; init --output, --force.
NoFlags == [description |-> "", tags |-> <<>>, follow |-> FALSE, tail |-> 0,
            output |-> "", force |-> FALSE]

(***************************************************************************)
(* brew run (brewRunCmd.RunE).                                             *)
(***************************************************************************)
Terminal == {"Reported", "Cancelled", "Failed", "Completed", "Error"}

\* if !confirm && !cfg.UI.Confirm
NeedsConfirmation(flag, uiConfirm) == ~flag /\ ~uiConfirm

\* the negation of: ToLower(response) != "y" && ToLower(response) != "yes"
IsYes(response) ==
  \/ ToLower(response) = <<"y">>
  \/ ToLower(response) = <<"y", "e", "s">>

\* A dry-run report that numbers the commands from 0.
DryRunReportFromZero(name, commands) ==
  <<Msg("Would run recipe '%s':", <<ArgS(name)>>)>> \o
  [i \in 1..Len(commands) |->
     Msg("  %d. %s", <<ArgD(i - 1), ArgT(commands[i])>>)]

\* The dry-run report: the header, then one numbered line per command.
DryRunReport(name, commands) ==
  <<Msg("Would run recipe '%s':", <<ArgS(name)>>)>> \o
  [i \in 1..Len(commands) |->
     Msg("  %d. %s", <<ArgD(i), ArgT(commands[i])>>)]

\* What is printed between the confirmation and the command loop.
RunHeader(name, recipe) ==
  <<Msg("Running recipe: %s", <<ArgS(name)>>)>> \o
  (IF recipe.Description # ""
     THEN <<Msg("Description: %s\n", <<ArgS(recipe.Description)>>)>>
     ELSE <<>>) \o
  <<Msg("\n", <<>>)>>

ExecutingLine(i, commands) ==
  Msg("Executing command %d/%d: %s",
      <<ArgD(i), ArgD(Len(commands)), ArgT(commands[i])>>)

\* A loop that passes over no command.
SkippedNever(command) == FALSE

\* The loop's "continue": whether the command is passed over.
Skipped(command) == Len(Fields(command)) = 0

\* The first index at or after i whose command is not passed over;
\* Len(commands) + 1 when the loop runs out.
RECURSIVE NextCommand(_, _)
NextCommand(commands, i) ==
  IF i > Len(commands) THEN Len(commands) + 1
  ELSE IF Skipped(commands[i]) THEN NextCommand(commands, i + 1)
  ELSE i

\* The error returned when cmdExec.Run() fails.
RunError(i, command, cause) ==
  Msg("recipe execution failed: %w", <<ArgW(cause)>>)

\* A loop that takes a failed command for the end of a successful run.
OnRunErrorIgnored(name, commands, i, o, p, cause) ==
  /\ out' = o \o <<Msg("Recipe '%s' completed successfully", <<ArgS(name)>>)>>
  /\ procs' = p
  /\ err' = NoError
  /\ state' = "Completed"

\* What the loop does after cmdExec.Run() returned the error cause for
\* command i: print, return the error; the run is over.
OnRunError(name, commands, i, o, p, cause) ==
  /\ out' = o \o <<Msg("Command failed: %s", <<ArgT(commands[i])>>)>>
  /\ procs' = p
  /\ err' = RunError(i, commands[i], cause)
  /\ state' = "Failed"

\* The command loop from index i, with o printed and p run so far, up to
\* the point where it blocks in cmdExec.Run() or returns.
RunLoop(name, commands, i, o, p) ==
  LET n == Len(commands)
      j == NextCommand(commands, i)
      last == IF j > n THEN n ELSE j
      announced == [k \in 1..(last - i + 1) |->
                      ExecutingLine(i + k - 1, commands)]
  IN  IF j > n
        THEN /\ out' = o \o announced \o
                       <<Msg("Recipe '%s' completed successfully", <<ArgS(name)>>)>>
             /\ procs' = p
             /\ err' = NoError
             /\ state' = "Completed"
        ELSE \/ /\ out' = o \o announced
                /\ procs' = Append(p, [idx |-> j, argv |-> Fields(commands[j]),
                                       status |-> "running"])
                /\ err' = NoError
                /\ state' = "Executing"
             \/ OnRunError(name, commands, j, o \o announced,
                           Append(p, [idx |-> j, argv |-> Fields(commands[j]),
                                      status |-> "nostart"]),
                           "exec: not started")

\* RunE from its entry to the first point where it blocks or returns.
Run ==
  /\ state = "Pending"
  /\ answer' = answer
  /\ IF Len(args) = 0
       THEN /\ err' = Msg("recipe name is required", <<>>)
            /\ state' = "Error"
            /\ UNCHANGED <<out, procs>>
     ELSE LET name == args[1] IN
       \/ \* config.GetRepoConfig() fails
          /\ err' = Msg("failed to load config: %w", <<ArgW("config")>>)
          /\ state' = "Error"
          /\ UNCHANGED <<out, procs>>
       \/ IF name \notin DOMAIN cfg.Recipes
            THEN /\ err' = Msg("recipe '%s' not found", <<ArgS(name)>>)
                 /\ state' = "Error"
                 /\ UNCHANGED <<out, procs>>
          ELSE LET recipe == cfg.Recipes[name] IN
            IF dryRun
              THEN /\ out' = out \o DryRunReport(name, recipe.Commands)
                   /\ err' = NoError
                   /\ state' = "Reported"
                   /\ UNCHANGED procs
            ELSE IF NeedsConfirmation(confirm, cfg.UIConfirm)
              THEN /\ out' = out \o <<Msg("Run recipe '%s'? (y/N): ", <<ArgS(name)>>)>>
                   /\ state' = "AwaitingConfirmation"
                   /\ UNCHANGED <<procs, err>>
            ELSE RunLoop(name, recipe.Commands, 1,
                         out \o RunHeader(name, recipe), procs)
  /\ UNCHANGED <<args, dryRun, confirm, cfg>>

\* fmt.Scanln(&response) returns: the prompt got its input.
ReadAnswer ==
  /\ state = "AwaitingConfirmation"
  /\ \E in \in Inputs :
       LET r == Scanln(in)
           name == args[1]
           recipe == cfg.Recipes[name]
       IN  /\ answer' = Append(answer, in)
           /\ IF r.err # NoError
                THEN /\ out' = out \o <<Msg("Error reading input: %v", <<ArgW(r.err.fmt)>>)>>
                     /\ err' = r.err
                     /\ state' = "Error"
                     /\ UNCHANGED procs
              ELSE IF ~IsYes(r.value)
                THEN /\ out' = out \o <<Msg("Operation cancelled", <<>>)>>
                     /\ err' = NoError
                     /\ state' = "Cancelled"
                     /\ UNCHANGED procs
              ELSE RunLoop(name, recipe.Commands, 1,
                           out \o RunHeader(name, recipe), procs)
  /\ UNCHANGED <<args, dryRun, confirm, cfg>>

\* cmdExec.Run() returns: the running process exited.
ProcessExit ==
  /\ state = "Executing"
  /\ LET name == args[1]
         commands == cfg.Recipes[name].Commands
         k == Len(procs)
         i == procs[k].idx
     IN  \/ RunLoop(name, commands, i + 1, out \o <<Msg("\n", <<>>)>>,
                    [procs EXCEPT ![k].status = "zero"])
         \/ OnRunError(name, commands, i, out,
                       [procs EXCEPT ![k].status = "nonzero"], "exit status 1")
  /\ UNCHANGED <<args, dryRun, confirm, cfg, answer>>

InitRun ==
  /\ args \in {<<>>, <<RecipeName>>, <<"missing">>}
  /\ dryRun \in BOOLEAN
  /\ confirm \in BOOLEAN
  /\ cfg \in [Recipes : Stores, UIConfirm : BOOLEAN]
  /\ state = "Pending"
  /\ answer = <<>>
  /\ out = <<>>
  /\ procs = <<>>
  /\ err = NoError

Init ==
  /\ InitRun
  /\ output = <<>>
  /\ status = EmptyStatus
  /\ parsed = FALSE
  /\ fs = <<>>
  /\ ps = <<>>
  /\ cmd = "brew run"
  /\ file = cfg
  /\ entry = NoEntry
  /\ calls = <<>>
  /\ target = ""
  /\ flags = NoFlags

Next ==
  \/ Run /\ UNCHANGED <<sysVars, parseVars, storeVars, resolveVars>>
  \/ ReadAnswer /\ UNCHANGED <<sysVars, parseVars, storeVars, resolveVars>>
  \/ ProcessExit /\ UNCHANGED <<sysVars, parseVars, storeVars, resolveVars>>

Spec == Init /\ [][Next]_vars

(***************************************************************************)
(* ParseStatus applied to a raw status text.                               *)
(***************************************************************************)
CallParseStatus ==
  /\ ~parsed
  /\ status' = ParseStatus(output)
  /\ parsed' = TRUE
  /\ UNCHANGED output

\* git.DisplayStatus: a heading and the line of a file; color.X(text) and
\* fmt.Println(text) both print the text and a line end.
FileLine(f, useColors) ==
  Msg(IF useColors THEN "  %s" ELSE "  %s\n", <<ArgT(f.Path)>>)

\* One of the four blocks of DisplayStatus.
DisplayBucket(files, heading, useColors) ==
  IF Len(files) > 0
    THEN <<Msg(heading, <<>>)>> \o
         [k \in 1..Len(files) |-> FileLine(files[k], useColors)] \o
         <<Msg("\n", <<>>)>>
  ELSE <<>>

\* git.DisplayStatus(status, useColors); branch is what getCurrentBranch
\* returned, branchErr tells that it failed.
DisplayStatus(st, useColors, branch, branchErr) ==
  LET totalChanges == Len(st.Staged) + Len(st.Modified) + Len(st.Untracked)
                      + Len(st.Deleted) + Len(st.Renamed) + Len(st.Conflicted)
  IN  <<Msg("=== Git Status ===", <<>>)>> \o
      (IF branchErr THEN <<>>
       ELSE <<Msg(IF useColors THEN "On branch: %s" ELSE "On branch: %s\n",
                  <<ArgS(branch)>>)>>) \o
      <<Msg("\n", <<>>)>> \o
      DisplayBucket(st.Staged, "Changes to be committed:", useColors) \o
      DisplayBucket(st.Modified, "Changes not staged for commit:", useColors) \o
      DisplayBucket(st.Untracked, "Untracked files:", useColors) \o
      DisplayBucket(st.Conflicted, "Unmerged paths:", useColors) \o
      (IF totalChanges = 0 THEN <<Msg("Working tree clean", <<>>)>> ELSE <<>>)

\* gitStatusCmd.RunE after ParseStatus: the status is displayed and nil is
\* returned.
CallDisplayStatus ==
  /\ parsed
  /\ state = "Pending"
  /\ \E branchErr \in BOOLEAN :
       out' = out \o DisplayStatus(status, cfg.UIColors, "main", branchErr)
  /\ state' = "Completed"
  /\ UNCHANGED <<args, dryRun, confirm, cfg, answer, procs, err>>

InitParse ==
  /\ output \in Outputs
  /\ status = EmptyStatus
  /\ parsed = FALSE
  /\ fs = <<>>
  /\ ps = <<>>
  /\ args = <<>>
  /\ dryRun = FALSE
  /\ confirm = FALSE
  /\ cfg \in [Recipes : {<<>>}, UIConfirm : {FALSE}, UIColors : BOOLEAN]
  /\ state = "Pending"
  /\ answer = <<>>
  /\ out = <<>>
  /\ procs = <<>>
  /\ err = NoError
  /\ cmd = "git status"
  /\ file = cfg
  /\ entry = NoEntry
  /\ calls = <<>>
  /\ target = ""
  /\ flags = NoFlags

NextParse ==
  \/ CallParseStatus /\ UNCHANGED <<sysVars, runVars, storeVars, resolveVars>>
  \/ CallDisplayStatus
       /\ UNCHANGED <<sysVars, parseVars, storeVars, resolveVars>>

SpecParse == InitParse /\ [][NextParse]_vars

(***************************************************************************)
(* Vocabulary of the recipe runner claims.                                 *)
(***************************************************************************)
Range(f) == {f[k] : k \in DOMAIN f}

\* The run is on a recipe that exists and whose configuration was loaded.
OnExistingRecipe ==
  /\ Len(args) > 0
  /\ args[1] \in DOMAIN cfg.Recipes
  /\ err.fmt # "failed to load config: %w"

StoredCommands == cfg.Recipes[args[1]].Commands

\* A command is non-empty when it holds a character that is not white space.
NonEmptyCommand(command) == \E k \in 1..Len(command) : ~IsSpace(command[k])

\* The positions of the non-empty commands, ascending.
RECURSIVE NonEmptyFrom(_, _)
NonEmptyFrom(commands, i) ==
  IF i > Len(commands) THEN <<>>
  ELSE (IF NonEmptyCommand(commands[i]) THEN <<i>> ELSE <<>>) \o
       NonEmptyFrom(commands, i + 1)

Prompts == {k \in 1..Len(out) : out[k].fmt = "Run recipe '%s'? (y/N): "}

SkipConfirm == confirm \/ cfg.UIConfirm

\* The answer line, compared without regard to letter case, is y or yes.
SaysYes(line) == ToLower(line) \in {<<"y">>, <<"y", "e", "s">>}

\* C1: a dry run on an existing recipe spawns nothing and prompts nothing,
\* whatever the confirm settings; it ends in Reported with a nil error and has
\* printed the header and then every command once, in stored order, numbered
\* from 1.
C1_DryRunReports ==
  (dryRun /\ OnExistingRecipe) =>
    /\ procs = <<>>
    /\ Prompts = {}
    /\ answer = <<>>
    /\ state \in {"Pending", "Reported"}
    /\ state = "Pending" => out = <<>>
    /\ state = "Reported" =>
         /\ err = NoError
         /\ Len(out) = Len(StoredCommands) + 1
         /\ \A i \in 1..Len(StoredCommands) :
              out[i + 1] = Msg("  %d. %s", <<ArgD(i), ArgT(StoredCommands[i])>>)

C1_Witness ==
  /\ dryRun /\ OnExistingRecipe
  /\ ~confirm /\ ~cfg.UIConfirm
  /\ state = "Reported"
  /\ Len(StoredCommands) = MaxCommands
  /\ StoredCommands[1] # StoredCommands[2]

\* C2: the commands run are a prefix of the recipe's non-empty commands in
\* stored order; every run but the last has exited with status zero, so a
\* command is spawned only after its predecessor succeeded; a run that exited
\* non-zero or did not start is the last one and the runner is Failed.
C2_SpawnedIsPrefix ==
  OnExistingRecipe =>
    LET want == NonEmptyFrom(StoredCommands, 1)
        n == Len(procs)
    IN  /\ n <= Len(want)
        /\ \A k \in 1..n : procs[k].idx = want[k]
        /\ \A k \in 1..(n - 1) : procs[k].status = "zero"
        /\ (n > 0 /\ procs[n].status \in {"nonzero", "nostart"}) => state = "Failed"
        /\ (n > 0 /\ procs[n].status = "running") <=> state = "Executing"
        /\ state = "Failed" => (n > 0 /\ procs[n].status \in {"nonzero", "nostart"})

C2_Witness ==
  /\ OnExistingRecipe
  /\ Len(StoredCommands) = 3
  /\ \A i \in 1..3 : NonEmptyCommand(StoredCommands[i])
  /\ Len(procs) = 2
  /\ procs[1].status = "zero"
  /\ procs[2].status = "nonzero"
  /\ state = "Failed"

\* C3: when a command fails, the returned error identifies the 1-based
\* position of the failing command and its text.
C3_ErrorNamesCommand ==
  (OnExistingRecipe /\ state = "Failed") =>
    LET i == procs[Len(procs)].idx
    IN  /\ ArgD(i) \in Range(err.args)
        /\ ArgT(StoredCommands[i]) \in Range(err.args)

\* C4: without dry-run and with confirmation not skipped, the user is
\* prompted before anything is spawned, and every answer line that is not y
\* or yes (in any letter case) ends the run in Cancelled with a nil error and
\* nothing spawned.
C4_OtherAnswerCancels ==
  (OnExistingRecipe /\ ~dryRun /\ ~SkipConfirm) =>
    /\ state = "AwaitingConfirmation" => (procs = <<>> /\ Prompts # {})
    /\ procs # <<>> => answer # <<>>
    /\ (answer # <<>> /\ ~answer[1].eof /\ ~SaysYes(answer[1].line)) =>
         (state = "Cancelled" /\ err = NoError /\ procs = <<>>)

\* C5: without dry-run and with confirmation skipped no prompt is issued and
\* no answer is read; the run ends in Completed with a nil error exactly when
\* every non-empty command was run once, in stored order, and each exited with
\* status zero.
C5_CompletedIffAllSucceeded ==
  (OnExistingRecipe /\ ~dryRun /\ SkipConfirm) =>
    /\ Prompts = {}
    /\ answer = <<>>
    /\ state \in {"Pending", "Executing", "Failed", "Completed"}
    /\ state \in Terminal =>
         ((state = "Completed" /\ err = NoError) <=>
            /\ [k \in 1..Len(procs) |-> procs[k].idx] = NonEmptyFrom(StoredCommands, 1)
            /\ \A k \in 1..Len(procs) : procs[k].status = "zero")
    /\ state = "Completed" <=> (state \in Terminal /\ err = NoError)

C5_Witness ==
  /\ OnExistingRecipe /\ ~dryRun /\ confirm /\ ~cfg.UIConfirm
  /\ state = "Completed"
  /\ Len(StoredCommands) = 3
  /\ Len(procs) = 2

\* C6: a run on an existing recipe whose prompt got an input line ends in one
\* of Reported, Cancelled, Failed, Completed.
C6_EndsInFourStates ==
  (/\ OnExistingRecipe
   /\ state \in Terminal
   /\ \A k \in 1..Len(answer) : ~answer[k].eof)
    => state \in {"Reported", "Cancelled", "Failed", "Completed"}

(***************************************************************************)
(* Vocabulary of the ParseStatus claims.                                   *)
(***************************************************************************)
\* The lines of the raw text as given: nothing removed.
RawLines == SplitLines(output)

CodeOf(line) == SubSeq(line, 1, 2)

PathOf(line) == SubSeq(line, 4, Len(line))

EntryOf(line) == [Path |-> PathOf(line), Status |-> CodeOf(line)]

ConflictCodes == {<<"U", "U">>, <<"A", "A">>, <<"D", "D">>}

\* The bucket the classification table gives a code that is no conflict code.
TableBucket(xy) ==
  IF xy[1] = "M" THEN (IF xy[2] = "M" THEN "Modified" ELSE "Staged")
  ELSE IF xy[1] = "A" THEN "Staged"
  ELSE IF xy[1] = "D" THEN "Deleted"
  ELSE IF xy[1] = "R" THEN "Renamed"
  ELSE IF xy = <<"?", "?">> THEN "Untracked"
  ELSE ""

\* The entries of the lines from i on that have 3 characters or more, a code
\* that is no conflict code, and table bucket b.
RECURSIVE TableEntries(_, _, _)
TableEntries(lines, i, b) ==
  IF i > Len(lines) THEN <<>>
  ELSE (IF /\ Len(lines[i]) >= 3
           /\ CodeOf(lines[i]) \notin ConflictCodes
           /\ TableBucket(CodeOf(lines[i])) = b
          THEN <<EntryOf(lines[i])>> ELSE <<>>) \o
       TableEntries(lines, i + 1, b)

NotConflictEntry(e) == e.Status \notin ConflictCodes

\* The lines of 3 characters or more, in order.
RECURSIVE LongLines(_, _)
LongLines(lines, i) ==
  IF i > Len(lines) THEN <<>>
  ELSE (IF Len(lines[i]) >= 3 THEN <<lines[i]>> ELSE <<>>) \o
       LongLines(lines, i + 1)

RECURSIVE SumLen(_, _)
SumLen(st, bs) ==
  IF bs = {} THEN 0
  ELSE LET b == CHOOSE x \in bs : TRUE
       IN  Len(st[b]) + SumLen(st, bs \ {b})

ExampleFile(c, code) ==
  [Path |-> <<c, ".", "t", "x", "t">>, Status |-> code]

\* C7: every line of 3 characters or more whose code is UU, AA or DD is in
\* the Conflicted bucket and in no other bucket.
C7_ConflictCodesConflicted ==
  parsed =>
    \A k \in 1..Len(RawLines) :
      (Len(RawLines[k]) >= 3 /\ CodeOf(RawLines[k]) \in ConflictCodes) =>
        /\ EntryOf(RawLines[k]) \in Range(status["Conflicted"])
        /\ \A b \in Buckets \ {"Conflicted"} :
             EntryOf(RawLines[k]) \notin Range(status[b])

\* C8: the lines of 3 characters or more whose code is not UU, AA or DD are
\* placed as the table says (M+M Modified, M Staged, A Staged, D Deleted,
\* R Renamed, ?? Untracked, others nowhere): each bucket holds, besides
\* conflict-coded entries, exactly the entries of the lines the table gives
\* it; and the four-line example text gives staged=[a.txt],
\* modified=[b.txt], untracked=[c.txt], conflicted=[d.txt].
C8_TableClassifies ==
  parsed =>
    /\ \A b \in Buckets :
         SelectSeq(status[b], NotConflictEntry) = TableEntries(RawLines, 1, b)
    /\ output = ExampleText =>
         status = [EmptyStatus EXCEPT
                     !["Staged"] = <<ExampleFile("a", <<"M", " ">>)>>,
                     !["Modified"] = <<ExampleFile("b", <<"M", "M">>)>>,
                     !["Untracked"] = <<ExampleFile("c", <<"?", "?">>)>>,
                     !["Conflicted"] = <<ExampleFile("d", <<"U", "U">>)>>]

\* C9: the code and the path are taken from each line of the raw text as it
\* stands, so the report is the one the loop gives on the raw lines with no
\* character removed.
C9_LinesSplitAsGiven ==
  parsed => status = ParseLines(EmptyStatus, RawLines, 1)

\* C10: the six buckets together hold no more entries than the text has
\* lines, and the report is the one of the text without its blank lines and
\* its lines shorter than 3 characters.
C10_ShortLinesIgnored ==
  parsed =>
    /\ SumLen(status, Buckets) <= Len(RawLines)
    /\ status = ParseStatus(Join(LongLines(RawLines, 1), 1))

\* An entry comes from a line when it is the line's code and path, the line
\* taken as given or without its surrounding white space.
ComesFrom(e, line) ==
  \/ Len(line) >= 3 /\ e = EntryOf(line)
  \/ Len(TrimSpace(line)) >= 3 /\ e = EntryOf(TrimSpace(line))

\* C11: within each bucket the entries stand in the order of their lines in
\* the input: every entry comes from a line, and of two entries of a bucket
\* the earlier one comes from an earlier line.
C11_BucketsKeepLineOrder ==
  parsed =>
    \A b \in Buckets :
      /\ \A i \in 1..Len(status[b]) :
           \E p \in 1..Len(RawLines) : ComesFrom(status[b][i], RawLines[p])
      /\ \A i, j \in 1..Len(status[b]) :
           i < j =>
             \E p, q \in 1..Len(RawLines) :
               /\ p < q
               /\ ComesFrom(status[b][i], RawLines[p])
               /\ ComesFrom(status[b][j], RawLines[q])

C11_Witness ==
  /\ parsed
  /\ Len(RawLines) = 2
  /\ Len(status["Staged"]) = 2
  /\ status["Staged"][1].Status # status["Staged"][2].Status

(***************************************************************************)
(* Resolution of a target: kctx, kns, klogs, kexec and git checkout.       *)
(* Names are whole strings; an argument of a spawned process is the        *)
(* sequence of the strings it is concatenated from.                        *)
(***************************************************************************)
MaxCandidates == 2

MaxTail == 1

ResolveCmds == {"kctx", "kns", "klogs", "kexec", "git checkout"}

\* The names the listers report.
CandidateNames == {"a", "b"}

Candidates == SeqUpTo(CandidateNames, MaxCandidates)

\* The names given on the command line.
ArgNames == {"a", "b", "prod", "other"}

AliasTables ==
  { <<>>,
    ("a" :> "b") @@ ("b" :> "c"),
    ("prod" :> "production-cluster") }

BinBash == <<"/", "b", "i", "n", "/", "b", "a", "s", "h">>

\* The second argument of kexec.
ExecCommands == { <<"l", "s">>, <<"l", "s", " ", "-", "l">> }

ResolveArgs ==
  {<<>>} \cup {<<n>> : n \in ArgNames}
         \cup {<<n, c>> : n \in ArgNames, c \in ExecCommands}

ResolveFlags ==
  {[NoFlags EXCEPT !.follow = f, !.tail = t] : f \in BOOLEAN, t \in 0..MaxTail}

\* fmt.Sprintf("%d", n) for the numbers the model uses.
Decimal(n) == <<"0", "1", "2", "3", "4", "5", "6", "7", "8", "9">>[n + 1]

\* strings.Split(s, " ").
RECURSIVE SplitSpace(_, _, _)
SplitSpace(s, i, piece) ==
  IF i > Len(s) THEN <<piece>>
  ELSE IF s[i] = " " THEN <<piece>> \o SplitSpace(s, i + 1, <<>>)
  ELSE SplitSpace(s, i + 1, Append(piece, s[i]))

\* kctx, kns and git checkout load the configuration first.
LoadsConfig(c) == c \in {"kctx", "kns", "git checkout"}

\* The error returned when the lister fails.
ListerError(c, cause) ==
  CASE c = "kctx" -> Msg("failed to get contexts: %w", <<ArgW(cause)>>)
    [] c = "kns" -> Msg("failed to get namespaces: %w", <<ArgW(cause)>>)
    [] c \in {"klogs", "kexec"} -> Msg("failed to get pods: %w", <<ArgW(cause)>>)
    [] c = "git checkout" -> Msg("failed to get branches: %w", <<ArgW(cause)>>)

\* The error returned when the picker fails.
PickerError(c, cause) ==
  CASE c = "kctx" -> Msg("failed to select context: %w", <<ArgW(cause)>>)
    [] c = "kns" -> Msg("failed to select namespace: %w", <<ArgW(cause)>>)
    [] c \in {"klogs", "kexec"} -> Msg("failed to select pod: %w", <<ArgW(cause)>>)
    [] c = "git checkout" -> Msg("failed to select branch: %w", <<ArgW(cause)>>)

Lister(c) ==
  CASE c = "kctx" -> "GetContexts"
    [] c = "kns" -> "GetNamespaces"
    [] c \in {"klogs", "kexec"} -> "GetPods"
    [] c = "git checkout" -> "GetBranches"

Picker(c) ==
  CASE c = "kctx" -> "SelectContext"
    [] c = "kns" -> "SelectNamespace"
    [] c \in {"klogs", "kexec"} -> "SelectPod"
    [] c = "git checkout" -> "SelectBranch"

Listers == {Lister(c) : c \in ResolveCmds}

Pickers == {Picker(c) : c \in ResolveCmds}

\* A test that takes every invocation for one without an argument.
HasArgumentNever(a) == FALSE

\* if len(args) > 0
HasArgument(a) == Len(a) > 0

\* A lookup that follows the table until the name is no key of it.
RECURSIVE SubstituteAll(_, _)
SubstituteAll(table, a) ==
  IF a \in DOMAIN table THEN SubstituteAll(table, table[a]) ELSE a

\* if alias, exists := table[target]; exists { target = alias }
Substitute(table, a) == IF a \in DOMAIN table THEN table[a] ELSE a

\* The target an explicit argument a stands for.
ExplicitTarget(c, a, config) ==
  IF c = "kctx" THEN Substitute(config.ContextAliases, a)
  ELSE IF c = "kns" THEN Substitute(config.NamespaceAliases, a)
  ELSE a

\* A picker whose result is looked up in the alias table.
PickedTargetAliased(c, candidates, idx, config) ==
  ExplicitTarget(c, candidates[idx], config)

\* return contexts[idx].Name, nil
PickedTarget(c, candidates, idx, config) == candidates[idx]

\* kexec: the command to execute in the pod.
ExecCommand(a) == IF Len(a) > 1 THEN a[2] ELSE BinBash

\* The line printed under --dry-run.  For klogs the arguments are the pieces
\* cmdStr is put together from.
WouldRun(c, t, a, fl) ==
  CASE c = "kctx" ->
         Msg("Would run: kubectl config use-context %s", <<ArgS(t)>>)
    [] c = "kns" ->
         Msg("Would run: kubectl config set-context --current --namespace=%s",
             <<ArgS(t)>>)
    [] c = "klogs" ->
         Msg("Would run: %s",
             <<ArgS("kubectl logs "), ArgS(t)>> \o
             (IF fl.follow THEN <<ArgS(" -f")>> ELSE <<>>) \o
             (IF fl.tail > 0 THEN <<ArgS(" --tail="), ArgS(Decimal(fl.tail))>>
                             ELSE <<>>))
    [] c = "kexec" ->
         Msg("Would run: kubectl exec -it %s -- %s",
             <<ArgS(t), ArgT(ExecCommand(a))>>)
    [] c = "git checkout" ->
         Msg("Would run: git checkout %s", <<ArgS(t)>>)

\* The process that carries out the target operation.
Argv(c, t, a, fl, local) ==
  CASE c = "kctx" ->
         <<<<"kubectl">>, <<"config">>, <<"use-context">>, <<t>>>>
    [] c = "kns" ->
         <<<<"kubectl">>, <<"config">>, <<"set-context">>, <<"--current">>,
           <<"--namespace=", t>>>>
    [] c = "klogs" ->
         <<<<"kubectl">>, <<"logs">>, <<t>>>> \o
         (IF fl.follow THEN <<<<"-f">>>> ELSE <<>>) \o
         (IF fl.tail > 0 THEN <<<<"--tail=", Decimal(fl.tail)>>>> ELSE <<>>)
    [] c = "kexec" ->
         <<<<"kubectl">>, <<"exec">>, <<"-it">>, <<t>>, <<"--">>>> \o
         SplitSpace(ExecCommand(a), 1, <<>>)
    [] c = "git checkout" ->
         IF local THEN <<<<"git">>, <<"checkout">>, <<t>>>>
         ELSE <<<<"git">>, <<"checkout">>, <<"-b">>, <<t>>, <<"origin/", t>>>>

\* git checkout: the test whether the branch exists locally.
ShowRef(t) ==
  <<<<"git">>, <<"show-ref">>, <<"--verify">>, <<"--quiet">>,
    <<"refs/heads/", t>>>>

\* The error returned when the target operation fails.
TargetError(c, t, cause) ==
  CASE c = "kctx" -> Msg("failed to switch context: %w", <<ArgW(cause)>>)
    [] c = "kns" -> Msg("failed to switch namespace: %w", <<ArgW(cause)>>)
    [] c = "klogs" -> Msg("failed to get logs: %w", <<ArgW(cause)>>)
    [] c = "kexec" -> Msg("failed to execute command: %w", <<ArgW(cause)>>)
    [] c = "git checkout" ->
         Msg("failed to checkout branch %s: %w", <<ArgS(t), ArgW(cause)>>)

\* What is printed after the target operation succeeded.
Switched(c, t) ==
  CASE c = "kctx" -> <<Msg("Switched to context: %s", <<ArgS(t)>>)>>
    [] c = "kns" -> <<Msg("Switched to namespace: %s", <<ArgS(t)>>)>>
    [] c \in {"klogs", "kexec"} -> <<>>
    [] c = "git checkout" -> <<Msg("Switched to branch: %s", <<ArgS(t)>>)>>

\* exec.Command(argv).Run() for the target operation: it blocks in the
\* process, or the process cannot be started and the error is returned.
StartTarget(c, t, argv, o, p) ==
  \/ /\ procs' = Append(p, [idx |-> Len(p) + 1, argv |-> argv,
                            status |-> "running"])
     /\ out' = o
     /\ err' = NoError
     /\ state' = "Executing"
  \/ /\ procs' = Append(p, [idx |-> Len(p) + 1, argv |-> argv,
                            status |-> "nostart"])
     /\ out' = o
     /\ err' = TargetError(c, t, "exec: not started")
     /\ state' = "Failed"

\* git checkout after show-ref returned: the branch is checked out, from the
\* remote when show-ref failed.
AfterShowRef(t, a, fl, found, o, p) ==
  IF found
    THEN StartTarget("git checkout", t, Argv("git checkout", t, a, fl, TRUE),
                     o, p)
    ELSE StartTarget("git checkout", t, Argv("git checkout", t, a, fl, FALSE),
                     o \o <<Msg("Branch %s not found locally, checking out from remote...",
                                <<ArgS(t)>>)>>,
                     p)

\* The subcommand from the point where the target t is resolved, up to the
\* point where it blocks in a process or returns.
Proceed(c, t, a, fl) ==
  IF dryRun
    THEN /\ out' = out \o <<WouldRun(c, t, a, fl)>>
         /\ err' = NoError
         /\ state' = "Reported"
         /\ UNCHANGED procs
  ELSE IF c = "git checkout"
    THEN \/ /\ procs' = Append(procs, [idx |-> Len(procs) + 1,
                                       argv |-> ShowRef(t),
                                       status |-> "running"])
            /\ state' = "Executing"
            /\ UNCHANGED <<out, err>>
         \/ AfterShowRef(t, a, fl, FALSE, out,
                         Append(procs, [idx |-> Len(procs) + 1,
                                        argv |-> ShowRef(t),
                                        status |-> "nostart"]))
  ELSE StartTarget(c, t, Argv(c, t, a, fl, TRUE), out, procs)

\* A lister failure after which the subcommand goes on to the picker with no
\* candidate.
ListerFailedPicks(c, cause) ==
  /\ calls' = Append([calls EXCEPT ![Len(calls)].failed = TRUE],
                     [fn |-> Picker(c), arg |-> <<>>, result |-> <<>>,
                      failed |-> FALSE])
  /\ state' = "Picking"
  /\ UNCHANGED <<out, procs, err, target>>

\* if err != nil { return fmt.Errorf("failed to get ...: %w", err) }
ListerFailed(c, cause) ==
  /\ calls' = [calls EXCEPT ![Len(calls)].failed = TRUE]
  /\ err' = ListerError(c, cause)
  /\ state' = "Error"
  /\ UNCHANGED <<out, procs, target>>

\* RunE from its entry to the first point where it blocks or returns.
Resolve ==
  /\ state = "Pending"
  /\ cmd \in ResolveCmds
  /\ \/ \* config.GetRepoConfig() fails
        /\ LoadsConfig(cmd)
        /\ err' = Msg("failed to load config: %w", <<ArgW("config")>>)
        /\ state' = "Error"
        /\ UNCHANGED <<out, procs, calls, target>>
     \/ IF HasArgument(args)
          THEN /\ target' = ExplicitTarget(cmd, args[1], cfg)
               /\ Proceed(cmd, target', args, flags)
               /\ UNCHANGED calls
          ELSE /\ calls' = Append(calls, [fn |-> Lister(cmd), arg |-> <<>>,
                                          result |-> <<>>, failed |-> FALSE])
               /\ state' = "Listing"
               /\ UNCHANGED <<out, procs, err, target>>
  /\ UNCHANGED <<args, dryRun, confirm, cfg, answer>>

\* The lister returns: an error, or the candidates it found.
ListerReturns ==
  /\ state = "Listing"
  /\ \/ ListerFailed(cmd, "exit status 1")
     \/ \E candidates \in Candidates :
          /\ calls' = Append([calls EXCEPT ![Len(calls)].result = candidates],
                             [fn |-> Picker(cmd), arg |-> candidates,
                              result |-> <<>>, failed |-> FALSE])
          /\ state' = "Picking"
          /\ UNCHANGED <<out, procs, err, target>>
  /\ UNCHANGED <<args, dryRun, confirm, cfg, answer>>

\* The picker returns: fuzzyfinder.Find gave an error (the selection was
\* aborted), or the index of the candidate chosen.
PickerReturns ==
  /\ state = "Picking"
  /\ LET candidates == calls[Len(calls)].arg IN
       \/ /\ calls' = [calls EXCEPT ![Len(calls)].failed = TRUE]
          /\ err' = PickerError(cmd, "abort")
          /\ state' = "Error"
          /\ UNCHANGED <<out, procs, target>>
       \/ \E idx \in 1..Len(candidates) :
            /\ calls' = [calls EXCEPT ![Len(calls)].result = <<candidates[idx]>>]
            /\ target' = PickedTarget(cmd, candidates, idx, cfg)
            /\ Proceed(cmd, target', args, flags)
  /\ UNCHANGED <<args, dryRun, confirm, cfg, answer>>

\* A spawned process exits.
TargetExit ==
  /\ state = "Executing"
  /\ cmd \in ResolveCmds
  /\ LET k == Len(procs) IN
       IF procs[k].argv = ShowRef(target)
         THEN \E found \in BOOLEAN :
                AfterShowRef(target, args, flags, found, out,
                             [procs EXCEPT ![k].status =
                                IF found THEN "zero" ELSE "nonzero"])
       ELSE \/ /\ procs' = [procs EXCEPT ![k].status = "zero"]
               /\ out' = out \o Switched(cmd, target)
               /\ err' = NoError
               /\ state' = "Completed"
            \/ /\ procs' = [procs EXCEPT ![k].status = "nonzero"]
               /\ err' = TargetError(cmd, target, "exit status 1")
               /\ state' = "Failed"
               /\ UNCHANGED out
  /\ UNCHANGED <<args, dryRun, confirm, cfg, answer, calls, target>>

InitResolve ==
  /\ cmd \in ResolveCmds
  /\ args \in ResolveArgs
  /\ flags \in ResolveFlags
  /\ dryRun \in BOOLEAN
  /\ confirm = FALSE
  /\ cfg \in [Recipes : {<<>>}, UIConfirm : {FALSE},
              ContextAliases : AliasTables, NamespaceAliases : AliasTables]
  /\ file = cfg
  /\ state = "Pending"
  /\ answer = <<>>
  /\ out = <<>>
  /\ procs = <<>>
  /\ err = NoError
  /\ calls = <<>>
  /\ target = ""
  /\ entry = NoEntry
  /\ output = <<>>
  /\ status = EmptyStatus
  /\ parsed = FALSE
  /\ fs = <<>>
  /\ ps = <<>>

NextResolve ==
  \/ Resolve /\ UNCHANGED <<sysVars, parseVars, storeVars>>
  \/ ListerReturns /\ UNCHANGED <<sysVars, parseVars, storeVars>>
  \/ PickerReturns /\ UNCHANGED <<sysVars, parseVars, storeVars>>
  \/ TargetExit /\ UNCHANGED <<sysVars, parseVars, storeVars>>

SpecResolve == InitResolve /\ [][NextResolve]_vars

(***************************************************************************)
(* Vocabulary of the resolution claims.                                    *)
(***************************************************************************)
\* The alias table the subcommand consults.
TableOf(c) ==
  IF c = "kctx" THEN cfg.ContextAliases
  ELSE IF c = "kns" THEN cfg.NamespaceAliases
  ELSE <<>>

\* The subcommand went past the resolution.
Resolved == state \in {"Reported", "Executing", "Completed", "Failed"}

\* The target operation is reported, or spawned, for the name t.
OperatesOn(t) ==
  /\ state = "Reported" =>
       /\ Len(out) = 1
       /\ \E k \in 1..Len(out[1].args) : out[1].args[k] = ArgS(t)
  /\ \A k \in 1..Len(procs) :
       \E w \in 1..Len(procs[k].argv) :
         LET word == procs[k].argv[w] IN word[Len(word)] = t

Failures == {k \in 1..Len(calls) : calls[k].failed}

\* C12: with an explicit argument neither the lister nor the picker is ever
\* invoked, whatever the argument is.
C12_ArgumentSkipsListerAndPicker ==
  (cmd \in ResolveCmds /\ Len(args) > 0) => calls = <<>>

C12_Witness ==
  /\ cmd = "kns"
  /\ Len(args) > 0
  /\ args[1] \in DOMAIN cfg.NamespaceAliases
  /\ state = "Completed"

\* C13: kctx and kns with an explicit argument a operate on the table's value
\* for a when a is a key of the alias table, looked up once, and on a itself
\* otherwise.
C13_AliasSubstitutedOnce ==
  (cmd \in {"kctx", "kns"} /\ Len(args) > 0 /\ Resolved) =>
    LET a == args[1]
        table == TableOf(cmd)
    IN  /\ a \in DOMAIN table => target = table[a]
        /\ a \notin DOMAIN table => target = a
        /\ (a = "a" /\ table = ("a" :> "b") @@ ("b" :> "c")) => target = "b"
        /\ (table = ("prod" :> "production-cluster")) =>
             /\ a = "prod" => target = "production-cluster"
             /\ a = "other" => target = "other"
        /\ OperatesOn(target)

C13_Witness ==
  /\ cmd = "kctx"
  /\ args = <<"a">>
  /\ cfg.ContextAliases = ("a" :> "b") @@ ("b" :> "c")
  /\ target = "b"
  /\ state = "Completed"

\* C14: without an explicit argument the lister is called first, the picker
\* after it on the candidates the lister returned, and the subcommand
\* operates on the name of one of them, whatever the alias table holds.
C14_PickedAmongListed ==
  (cmd \in ResolveCmds /\ Len(args) = 0) =>
    /\ Len(calls) <= 2
    /\ Len(calls) >= 1 => calls[1].fn \in Listers
    /\ Len(calls) = 2 =>
         /\ calls[2].fn \in Pickers
         /\ ~calls[1].failed
         /\ calls[2].arg = calls[1].result
    /\ Resolved =>
         /\ Len(calls) = 2
         /\ \E i \in 1..Len(calls[1].result) : target = calls[1].result[i]
         /\ OperatesOn(target)

C14_Witness ==
  /\ cmd = "kctx"
  /\ Len(args) = 0
  /\ Len(calls) = 2
  /\ calls[1].result = <<"b", "a">>
  /\ "a" \in DOMAIN cfg.ContextAliases
  /\ target = "a"
  /\ state = "Completed"

\* C15: without an explicit argument the picker is not called after a failed
\* lister, and after a failed lister or picker the subcommand has returned an
\* error, has printed nothing and has spawned nothing.
C15_FailedResolutionStops ==
  (cmd \in ResolveCmds /\ Len(args) = 0) =>
    /\ (Len(calls) >= 1 /\ calls[1].failed) => Len(calls) = 1
    /\ Failures # {} =>
         /\ state = "Error"
         /\ err # NoError
         /\ out = <<>>
         /\ procs = <<>>

C15_Witness ==
  /\ cmd = "git checkout"
  /\ Len(args) = 0
  /\ dryRun
  /\ Len(calls) = 1
  /\ calls[1].failed
  /\ state = "Error"

(***************************************************************************)
(* The recipe store: brew save, brew delete and brew edit, next to brew    *)
(* run, invoked one after the other on one configuration file.             *)
(***************************************************************************)
MaxEntered == 1

\* The subcommands of the recipe store, and git sync, which prompts as brew
\* run and brew delete do.
StoreCmds == {"brew save", "brew run", "brew delete", "brew edit", "git sync"}

OtherName == "build"

StoreNames == {RecipeName, OtherName}

\* The recipes the file holds at the start; each has a command.
StoreRecipes ==
  { [Description |-> "", Commands |-> <<<<"a">>>>, Tags |-> <<>>],
    [Description |-> "daily", Commands |-> <<<<"b", " ", "c">>, <<"a">>>>,
     Tags |-> <<<<"t">>>>] }

StoreMaps == UNION {[names -> StoreRecipes] : names \in SUBSET StoreNames}

StoreFiles == [Recipes : StoreMaps, UIConfirm : BOOLEAN]

StoreArgs == {<<>>, <<RecipeName>>, <<OtherName>>, <<"missing">>}

\* brew save --description, --tags.
SaveFlags ==
  {[NoFlags EXCEPT !.description = d, !.tags = t] :
     d \in Descriptions, t \in {<<>>, <<<<"t">>>>}}

\* The lines typed at the prompts of brew save and brew edit.
EntryLines ==
  { <<>>, <<"a">>, <<"a", ",", "b">>, <<"a", " ", "b">> }

EndOfInput == [line |-> <<>>, eof |-> TRUE]

\* The next line of standard input after the lines read: nothing follows
\* the end of the input.
NextInputs(lines, read) ==
  IF read # <<>> /\ read[Len(read)].eof THEN {EndOfInput}
  ELSE [line : lines, eof : BOOLEAN]

\* strings.Split(s, ",").
RECURSIVE SplitComma(_, _, _)
SplitComma(s, i, piece) ==
  IF i > Len(s) THEN <<piece>>
  ELSE IF s[i] = "," THEN <<piece>> \o SplitComma(s, i + 1, <<>>)
  ELSE SplitComma(s, i + 1, Append(piece, s[i]))

\* recipe.Tags = strings.Split(newTags, ","), each tag trimmed.
ParseTags(newTags) ==
  LET tags == SplitComma(newTags, 1, <<>>)
  IN  [k \in 1..Len(tags) |-> TrimSpace(tags[k])]

\* The zero value of config.Recipe.
ZeroRecipe == [Description |-> "", Commands |-> <<>>, Tags |-> <<>>]

\* A lookup that reports every name as present.
LookupAlways(recipes, name) ==
  [exists |-> TRUE,
   recipe |-> IF name \in DOMAIN recipes THEN recipes[name] ELSE ZeroRecipe]

\* recipe, exists := cfg.Brew.Recipes[name]
Lookup(recipes, name) ==
  [exists |-> name \in DOMAIN recipes,
   recipe |-> IF name \in DOMAIN recipes THEN recipes[name] ELSE ZeroRecipe]

\* A removal that empties the recipe and keeps its name.
DeleteEntryClears(recipes, name) ==
  [n \in DOMAIN recipes |->
     IF n = name THEN [recipes[n] EXCEPT !.Commands = <<>>] ELSE recipes[n]]

\* delete(cfg.Brew.Recipes, name)
DeleteEntry(recipes, name) ==
  [n \in DOMAIN recipes \ {name} |-> recipes[n]]

\* cfg.Brew.Recipes[name] = recipe
PutEntry(recipes, name, recipe) ==
  [n \in DOMAIN recipes \cup {name} |->
     IF n = name THEN recipe ELSE recipes[n]]

\* config.SaveConfig(c) and what follows it: the file is written and the
\* success is reported, or the write fails and the error is returned.
SaveConfig(c, o, done, failed) ==
  /\ cfg' = c
  /\ \/ /\ file' = c
        /\ out' = o \o <<done>>
        /\ err' = NoError
        /\ state' = "Completed"
     \/ /\ file' = file
        /\ out' = o
        /\ err' = Msg(failed, <<ArgW("write")>>)
        /\ state' = "Failed"

\* strings.Join(recipe.Tags, ", "), as the pieces it is put together from.
RECURSIVE JoinTags(_, _)
JoinTags(tags, i) ==
  IF i > Len(tags) THEN <<>>
  ELSE IF i = Len(tags) THEN <<ArgT(tags[i])>>
  ELSE <<ArgT(tags[i]), ArgS(", ")>> \o JoinTags(tags, i + 1)

\* brew edit: the current recipe as it is shown before the prompts.
CurrentRecipe(name, recipe) ==
  <<Msg("Current recipe '%s':\n", <<ArgS(name)>>),
    Msg("Description: %s\n", <<ArgS(recipe.Description)>>),
    Msg("Tags: %s\n", JoinTags(recipe.Tags, 1)),
    Msg("Commands:", <<>>)>> \o
  [i \in 1..Len(recipe.Commands) |->
     Msg("  %d. %s\n", <<ArgD(i), ArgT(recipe.Commands[i])>>)] \o
  <<Msg("\n", <<>>)>>

\* The opsbrew process starts: the command line is parsed and the
\* configuration file is read; cfg is what GetRepoConfig returns.
Invoke ==
  /\ state \in {"Idle"} \cup Terminal
  /\ cmd' \in StoreCmds
  /\ args' \in StoreArgs
  /\ dryRun' \in BOOLEAN
  /\ confirm' \in (IF cmd' \in {"brew run", "brew delete"} THEN BOOLEAN
                                                           ELSE {FALSE})
  /\ flags' \in (IF cmd' = "brew save" THEN SaveFlags ELSE {NoFlags})
  /\ cfg' = file
  /\ state' = "Pending"
  /\ answer' = <<>>
  /\ out' = <<>>
  /\ procs' = <<>>
  /\ err' = NoError
  /\ entry' = NoEntry
  /\ UNCHANGED file

\* brew delete: the removal and the save.
DeleteAndSave(name, o) ==
  SaveConfig([cfg EXCEPT !.Recipes = DeleteEntry(@, name)], o,
             Msg("Recipe '%s' deleted successfully", <<ArgS(name)>>),
             "failed to delete recipe: %w")

\* brewDeleteCmd.RunE from its entry to the first point where it blocks or
\* returns.
Delete ==
  /\ state = "Pending"
  /\ cmd = "brew delete"
  /\ answer' = answer
  /\ IF Len(args) = 0
       THEN /\ err' = Msg("recipe name is required", <<>>)
            /\ state' = "Error"
            /\ UNCHANGED <<out, cfg, file>>
     ELSE LET name == args[1] IN
       \/ \* config.GetRepoConfig() fails
          /\ err' = Msg("failed to load config: %w", <<ArgW("config")>>)
          /\ state' = "Error"
          /\ UNCHANGED <<out, cfg, file>>
       \/ IF ~Lookup(cfg.Recipes, name).exists
            THEN /\ err' = Msg("recipe '%s' not found", <<ArgS(name)>>)
                 /\ state' = "Error"
                 /\ UNCHANGED <<out, cfg, file>>
          ELSE IF dryRun
            THEN /\ out' = out \o <<Msg("Would delete recipe: %s", <<ArgS(name)>>)>>
                 /\ err' = NoError
                 /\ state' = "Reported"
                 /\ UNCHANGED <<cfg, file>>
          ELSE IF NeedsConfirmation(confirm, cfg.UIConfirm)
            THEN /\ out' = out \o <<Msg("Delete recipe '%s'? (y/N): ", <<ArgS(name)>>)>>
                 /\ state' = "AwaitingConfirmation"
                 /\ UNCHANGED <<err, cfg, file>>
          ELSE DeleteAndSave(name, out)
  /\ UNCHANGED <<args, dryRun, confirm, procs, cmd, entry, flags>>

\* brew delete: fmt.Scanln(&response) returns.
ReadDeleteAnswer ==
  /\ state = "AwaitingConfirmation"
  /\ cmd = "brew delete"
  /\ \E in \in Inputs :
       LET r == Scanln(in)
           name == args[1]
       IN  /\ answer' = Append(answer, in)
           /\ IF r.err # NoError
                THEN /\ out' = out \o <<Msg("Error reading input: %v", <<ArgW(r.err.fmt)>>)>>
                     /\ err' = r.err
                     /\ state' = "Error"
                     /\ UNCHANGED <<cfg, file>>
              ELSE IF ~IsYes(r.value)
                THEN /\ out' = out \o <<Msg("Operation cancelled", <<>>)>>
                     /\ err' = NoError
                     /\ state' = "Cancelled"
                     /\ UNCHANGED <<cfg, file>>
              ELSE DeleteAndSave(name, out)
  /\ UNCHANGED <<args, dryRun, confirm, procs, cmd, entry, flags>>

\* brewSaveCmd.RunE from its entry to the first read of a command.
Save ==
  /\ state = "Pending"
  /\ cmd = "brew save"
  /\ IF Len(args) = 0
       THEN /\ err' = Msg("recipe name is required", <<>>)
            /\ state' = "Error"
            /\ UNCHANGED out
     ELSE /\ out' = out \o
                    <<Msg("Enter commands for recipe '%s' (one per line, empty line to finish):\n",
                          <<ArgS(args[1])>>),
                      Msg("> ", <<>>)>>
          /\ state' = "ReadingCommands"
          /\ UNCHANGED err
  /\ UNCHANGED <<args, dryRun, confirm, procs, cmd, flags, cfg, file, answer,
                 entry>>

\* brew save after the loop that reads the commands.
FinishSave(name, commands, o) ==
  IF Len(commands) = 0
    THEN /\ err' = Msg("no commands provided", <<>>)
         /\ state' = "Error"
         /\ out' = o
         /\ UNCHANGED <<cfg, file>>
  ELSE \/ \* config.GetRepoConfig() fails
          /\ err' = Msg("failed to load config: %w", <<ArgW("config")>>)
          /\ state' = "Error"
          /\ out' = o
          /\ UNCHANGED <<cfg, file>>
       \/ SaveConfig([cfg EXCEPT !.Recipes =
                        PutEntry(@, name,
                                 [Description |-> flags.description,
                                  Commands |-> commands,
                                  Tags |-> flags.tags])],
                     o,
                     Msg("Recipe '%s' saved successfully", <<ArgS(name)>>),
                     "failed to save recipe: %w")

\* brewEditCmd.RunE from its entry to the first prompt.
Edit ==
  /\ state = "Pending"
  /\ cmd = "brew edit"
  /\ IF Len(args) = 0
       THEN /\ err' = Msg("recipe name is required", <<>>)
            /\ state' = "Error"
            /\ UNCHANGED <<out, entry>>
     ELSE LET name == args[1]
              found == Lookup(cfg.Recipes, name)
          IN
       \/ \* config.GetRepoConfig() fails
          /\ err' = Msg("failed to load config: %w", <<ArgW("config")>>)
          /\ state' = "Error"
          /\ UNCHANGED <<out, entry>>
       \/ IF ~found.exists
            THEN /\ err' = Msg("recipe '%s' not found", <<ArgS(name)>>)
                 /\ state' = "Error"
                 /\ UNCHANGED <<out, entry>>
          ELSE /\ out' = out \o CurrentRecipe(name, found.recipe) \o
                         <<Msg("New description (press Enter to keep current): ", <<>>)>>
               /\ entry' = [Description |-> found.recipe.Description,
                            Tags |-> found.recipe.Tags,
                            Commands |-> found.recipe.Commands,
                            Entered |-> <<>>]
               /\ state' = "ReadingDescription"
               /\ UNCHANGED err
  /\ UNCHANGED <<args, dryRun, confirm, procs, cmd, flags, cfg, file, answer>>

\* fmt.Scanln failed at a prompt of brew save or brew edit.
ReadFailed(cause) ==
  /\ out' = out \o <<Msg("Error reading input: %v", <<ArgW(cause.fmt)>>)>>
  /\ err' = cause
  /\ state' = "Error"
  /\ UNCHANGED <<entry, cfg, file>>

\* brew edit: fmt.Scanln(&newDescription) returns.
ReadDescription ==
  /\ state = "ReadingDescription"
  /\ \E in \in NextInputs(EntryLines, answer) :
       LET r == Scanln(in) IN
         /\ answer' = Append(answer, in)
         /\ IF r.err # NoError
              THEN ReadFailed(r.err)
            ELSE /\ entry' = IF r.value # <<>>
                               THEN [entry EXCEPT !.Description = r.value]
                               ELSE entry
                 /\ out' = out \o
                           <<Msg("New tags (comma-separated, press Enter to keep current): ",
                                 <<>>)>>
                 /\ state' = "ReadingTags"
                 /\ UNCHANGED <<err, cfg, file>>
  /\ UNCHANGED <<args, dryRun, confirm, procs, cmd, flags>>

\* brew edit: fmt.Scanln(&newTags) returns.
ReadTags ==
  /\ state = "ReadingTags"
  /\ \E in \in NextInputs(EntryLines, answer) :
       LET r == Scanln(in) IN
         /\ answer' = Append(answer, in)
         /\ IF r.err # NoError
              THEN ReadFailed(r.err)
            ELSE /\ entry' = IF r.value # <<>>
                               THEN [entry EXCEPT !.Tags = ParseTags(r.value)]
                               ELSE entry
                 /\ out' = out \o
                           <<Msg("Enter new commands (one per line, empty line to finish):",
                                 <<>>),
                             Msg("> ", <<>>)>>
                 /\ state' = "ReadingCommands"
                 /\ UNCHANGED <<err, cfg, file>>
  /\ UNCHANGED <<args, dryRun, confirm, procs, cmd, flags>>

\* brew edit after the loop that reads the commands.
FinishEdit(name, recipe, newCommands, o) ==
  SaveConfig([cfg EXCEPT !.Recipes =
                PutEntry(@, name,
                         [Description |-> recipe.Description,
                          Commands |-> IF Len(newCommands) > 0
                                         THEN newCommands
                                         ELSE recipe.Commands,
                          Tags |-> recipe.Tags])],
             o,
             Msg("Recipe '%s' updated successfully", <<ArgS(name)>>),
             "failed to save recipe: %w")

\* brew save, brew edit: fmt.Scanln(&input) returns in the loop that reads
\* the commands.  At most MaxEntered commands are taken.
ReadCommand ==
  /\ state = "ReadingCommands"
  /\ \E in \in NextInputs(EntryLines, answer) :
       LET r == Scanln(in) IN
         /\ answer' = Append(answer, in)
         /\ IF r.err # NoError
              THEN ReadFailed(r.err)
            ELSE IF r.value = <<>>
              THEN /\ entry' = entry
                   /\ IF cmd = "brew save"
                        THEN FinishSave(args[1], entry.Entered, out)
                        ELSE FinishEdit(args[1], entry, entry.Entered, out)
            ELSE /\ Len(entry.Entered) < MaxEntered
                 /\ entry' = [entry EXCEPT !.Entered = Append(@, r.value)]
                 /\ out' = out \o <<Msg("> ", <<>>)>>
                 /\ UNCHANGED <<err, state, cfg, file>>
  /\ UNCHANGED <<args, dryRun, confirm, procs, cmd, flags>>

\* git sync: the two processes.
ShowCurrent == <<<<"git">>, <<"branch">>, <<"--show-current">>>>

PullRebase == <<<<"git">>, <<"pull">>, <<"--rebase">>>>

\* git sync from the point where it is confirmed: the current branch is
\* asked for.
SyncStart(o) ==
  /\ out' = o
  /\ \/ /\ procs' = Append(procs, [idx |-> Len(procs) + 1, argv |-> ShowCurrent,
                                   status |-> "running"])
        /\ state' = "Executing"
        /\ UNCHANGED err
     \/ /\ procs' = Append(procs, [idx |-> Len(procs) + 1, argv |-> ShowCurrent,
                                   status |-> "nostart"])
        /\ err' = Msg("failed to get current branch: %w",
                      <<ArgW("exec: not started")>>)
        /\ state' = "Failed"

\* gitSyncCmd.RunE from its entry to the first point where it blocks or
\* returns.
Sync ==
  /\ state = "Pending"
  /\ cmd = "git sync"
  /\ \/ \* config.GetRepoConfig() fails
        /\ err' = Msg("failed to load config: %w", <<ArgW("config")>>)
        /\ state' = "Error"
        /\ UNCHANGED <<out, procs>>
     \/ IF dryRun
          THEN /\ out' = out \o <<Msg("Would run: git pull --rebase", <<>>)>>
               /\ state' = "Reported"
               /\ UNCHANGED <<err, procs>>
        ELSE IF NeedsConfirmation(confirm, cfg.UIConfirm)
          THEN /\ out' = out \o <<Msg("Pull with rebase? (y/N): ", <<>>)>>
               /\ state' = "AwaitingConfirmation"
               /\ UNCHANGED <<err, procs>>
        ELSE SyncStart(out)
  /\ UNCHANGED <<args, dryRun, confirm, cfg, answer, cmd, file, entry, flags>>

\* git sync: fmt.Scanln(&response) returns; its error is dropped.
ReadSyncAnswer ==
  /\ state = "AwaitingConfirmation"
  /\ cmd = "git sync"
  /\ \E in \in Inputs :
       LET r == Scanln(in) IN
         /\ answer' = Append(answer, in)
         /\ IF ~IsYes(r.value)
              THEN /\ out' = out \o <<Msg("Operation cancelled", <<>>)>>
                   /\ state' = "Cancelled"
                   /\ UNCHANGED <<err, procs>>
            ELSE SyncStart(out)
  /\ UNCHANGED <<args, dryRun, confirm, cfg, cmd, file, entry, flags>>

\* git sync: a spawned process exits.
SyncExit ==
  /\ state = "Executing"
  /\ cmd = "git sync"
  /\ LET k == Len(procs)
         exited(st) == [procs EXCEPT ![k].status = st]
     IN  IF procs[k].argv = ShowCurrent
           THEN \/ \E currentBranch \in CandidateNames :
                     /\ out' = out \o <<Msg("Syncing branch: %s",
                                            <<ArgS(currentBranch)>>)>>
                     /\ \/ /\ procs' = Append(exited("zero"),
                                              [idx |-> k + 1, argv |-> PullRebase,
                                               status |-> "running"])
                           /\ UNCHANGED <<err, state>>
                        \/ /\ procs' = Append(exited("zero"),
                                              [idx |-> k + 1, argv |-> PullRebase,
                                               status |-> "nostart"])
                           /\ err' = Msg("failed to sync: %w",
                                         <<ArgW("exec: not started")>>)
                           /\ state' = "Failed"
                \/ /\ procs' = exited("nonzero")
                   /\ err' = Msg("failed to get current branch: %w",
                                 <<ArgW("exit status 1")>>)
                   /\ state' = "Failed"
                   /\ UNCHANGED out
         ELSE \/ /\ procs' = exited("zero")
                 /\ out' = out \o <<Msg("Sync completed successfully", <<>>)>>
                 /\ state' = "Completed"
                 /\ UNCHANGED err
              \/ /\ procs' = exited("nonzero")
                 /\ err' = Msg("failed to sync: %w", <<ArgW("exit status 1")>>)
                 /\ state' = "Failed"
                 /\ UNCHANGED out
  /\ UNCHANGED <<args, dryRun, confirm, cfg, answer, cmd, file, entry, flags>>

InitStore ==
  /\ file \in StoreFiles
  /\ cfg = file
  /\ state = "Idle"
  /\ cmd = "brew run"
  /\ args = <<>>
  /\ dryRun = FALSE
  /\ confirm = FALSE
  /\ flags = NoFlags
  /\ answer = <<>>
  /\ out = <<>>
  /\ procs = <<>>
  /\ err = NoError
  /\ entry = NoEntry
  /\ calls = <<>>
  /\ target = ""
  /\ output = <<>>
  /\ status = EmptyStatus
  /\ parsed = FALSE
  /\ fs = <<>>
  /\ ps = <<>>

NextStore ==
  \/ Invoke /\ UNCHANGED <<sysVars, parseVars, resolveVars>>
  \/ Save /\ UNCHANGED <<sysVars, parseVars, resolveVars>>
  \/ Delete /\ UNCHANGED <<sysVars, parseVars, resolveVars>>
  \/ ReadDeleteAnswer /\ UNCHANGED <<sysVars, parseVars, resolveVars>>
  \/ Edit /\ UNCHANGED <<sysVars, parseVars, resolveVars>>
  \/ ReadDescription /\ UNCHANGED <<sysVars, parseVars, resolveVars>>
  \/ ReadTags /\ UNCHANGED <<sysVars, parseVars, resolveVars>>
  \/ ReadCommand /\ UNCHANGED <<sysVars, parseVars, resolveVars>>
  \/ Sync /\ UNCHANGED <<sysVars, parseVars, resolveVars>>
  \/ ReadSyncAnswer /\ UNCHANGED <<sysVars, parseVars, resolveVars>>
  \/ SyncExit /\ UNCHANGED <<sysVars, parseVars, resolveVars>>
  \/ cmd = "brew run" /\ Run /\ UNCHANGED <<sysVars, parseVars, storeVars, resolveVars>>
  \/ cmd = "brew run" /\ ReadAnswer
       /\ UNCHANGED <<sysVars, parseVars, storeVars, resolveVars>>
  \/ cmd = "brew run" /\ ProcessExit
       /\ UNCHANGED <<sysVars, parseVars, storeVars, resolveVars>>

SpecStore == InitStore /\ [][NextStore]_vars

(***************************************************************************)
(* Vocabulary of the recipe store claims.                                  *)
(***************************************************************************)
NotFound(name) == Msg("recipe '%s' not found", <<ArgS(name)>>)

LoadFailed == Msg("failed to load config: %w", <<ArgW("config")>>)

WriteFailed(f) == Msg(f, <<ArgW("write")>>)

\* The user pressed Enter on an empty line.
Enter == [line |-> <<>>, eof |-> FALSE]

\* A complete answer line that does not say y or yes.
Declines(in) == ~in.eof /\ ~SaysYes(TrimSpace(in.line))

\* The recipes without the one called name.
Without(recipes, name) ==
  [n \in DOMAIN recipes \ {name} |-> recipes[n]]

\* C16: brew save with an empty command list fails with the validation error
\* and leaves the store and the file alone; with a non-empty list, ended by
\* an empty line, it stores the description, the commands in entry order and
\* the tags under the name, and writes the file.
C16_SaveStoresEntered ==
  (cmd = "brew save" /\ answer # <<>> /\ answer[Len(answer)] = Enter) =>
    IF entry.Entered = <<>>
      THEN /\ state = "Error"
           /\ err = Msg("no commands provided", <<>>)
           /\ file = cfg
    ELSE /\ err \in {NoError, LoadFailed, WriteFailed("failed to save recipe: %w")}
         /\ err = NoError =>
              /\ state = "Completed"
              /\ file = cfg
              /\ args[1] \in DOMAIN file.Recipes
              /\ file.Recipes[args[1]] =
                   [Description |-> flags.description,
                    Commands |-> entry.Entered,
                    Tags |-> flags.tags]

C18_DeleteRemovesOnlyNamed ==
  [][(/\ cmd = "brew delete"
      /\ state \in {"Pending", "AwaitingConfirmation"}
      /\ Len(args) > 0
      /\ args[1] \in DOMAIN cfg.Recipes)
     => /\ dryRun =>
             /\ UNCHANGED <<cfg, file>>
             /\ \/ err' = LoadFailed
                \/ state' = "Reported" /\ err' = NoError
        /\ (state = "AwaitingConfirmation" /\ Declines(answer'[1])) =>
             /\ UNCHANGED <<cfg, file>>
             /\ state' = "Cancelled"
             /\ err' = NoError
        /\ file' # file => state' = "Completed"
        /\ state' = "Completed" =>
             /\ file'.Recipes = Without(file.Recipes, args[1])
             /\ file'.UIConfirm = file.UIConfirm
             /\ cfg' = file']_vars

\* C19: brew edit on an existing recipe: pressing Enter at a prompt keeps the
\* value the prompt is about and is no error; after the last prompt the
\* recipe is written under the same name, with the entered commands when
\* there are any, and the other recipes as they were.
C19_EnterKeepsValue ==
  [][(/\ cmd = "brew edit"
      /\ state \in {"ReadingDescription", "ReadingTags", "ReadingCommands"}
      /\ answer' = Append(answer, Enter))
     => /\ err' \in {NoError, WriteFailed("failed to save recipe: %w")}
        /\ state = "ReadingDescription" =>
             (state' = "ReadingTags" /\ entry' = entry)
        /\ state = "ReadingTags" =>
             (state' = "ReadingCommands" /\ entry' = entry)
        /\ state = "ReadingCommands" =>
             /\ state' \in {"Completed", "Failed"}
             /\ state' = "Completed" =>
                  /\ DOMAIN file'.Recipes = DOMAIN file.Recipes
                  /\ \A n \in DOMAIN file.Recipes \ {args[1]} :
                       file'.Recipes[n] = file.Recipes[n]
                  /\ file'.Recipes[args[1]] =
                       [Description |-> entry.Description,
                        Tags |-> entry.Tags,
                        Commands |-> IF entry.Entered # <<>>
                                       THEN entry.Entered
                                       ELSE entry.Commands]]_vars

\* C20: whatever brew save, brew edit and brew delete were invoked, and
\* however they ended, every recipe of the store and of the file has at
\* least one command, and the store maps a name to one recipe.
C20_RecipesKeepACommand ==
  \A c \in {cfg, file} :
    /\ DOMAIN c.Recipes \subseteq StoreNames \cup {"missing"}
    /\ c.Recipes = [n \in DOMAIN c.Recipes |-> c.Recipes[n]]
    /\ \A n \in DOMAIN c.Recipes : Len(c.Recipes[n].Commands) >= 1

C20_Witness ==
  /\ cmd = "brew delete"
  /\ state = "Completed"
  /\ args = <<RecipeName>>
  /\ DOMAIN file.Recipes = {OtherName}
  /\ DOMAIN cfg.Recipes = {OtherName}
  /\ Len(file.Recipes[OtherName].Commands) = 2

(***************************************************************************)
(* Further claims on the recipe runner.                                    *)
(***************************************************************************)
\* C21: brew run on a stored recipe without any command does not end in
\* Completed with the success report.
C21_EmptyRecipeNotCompleted ==
  (OnExistingRecipe /\ StoredCommands = <<>>) =>
    /\ state # "Completed"
    /\ \A k \in 1..Len(out) :
         out[k].fmt # "Recipe '%s' completed successfully"

(***************************************************************************)
(* The configuration file and concurrent invocations.  Each opsbrew        *)
(* process runs initConfig, then brew delete --confirm: GetRepoConfig and  *)
(* the handler up to SaveConfig, then the write.  The steps of different   *)
(* processes interleave at the accesses to the file system.                *)
(***************************************************************************)
Invocations == {1, 2}

\* filepath.Join(home, ".opsbrew.yaml")
HomeFile == "~/.opsbrew.yaml"

\* The per-directory file, relative to the working directory.
RepoFile == ".opsbrew.yaml"

\* A path given with --config.
CustomFile == "/etc/opsbrew.yaml"

\* The zero value of config.Config.
EmptyConfig == [Recipes |-> <<>>, UIConfirm |-> FALSE]

\* A configuration with two recipes, told apart by the description.
ConfigOf(origin) ==
  [Recipes |-> [n \in StoreNames |->
                  [Description |-> origin, Commands |-> <<<<"a">>>>,
                   Tags |-> <<>>]],
   UIConfirm |-> FALSE]

\* The configuration CreateDefaultConfig writes; a command is held as one
\* string.
DefaultConfig ==
  [Recipes |->
     ("daily-sync" :>
        [Description |-> "Daily development workflow",
         Commands |-> <<<<"git fetch --all">>, <<"git pull origin main">>,
                        <<"git checkout -b feature/$(date +%Y%m%d)">>>>,
         Tags |-> <<<<"daily">>, <<"git">>>>]) @@
     ("deploy-check" :>
        [Description |-> "Pre-deployment checks",
         Commands |-> <<<<"kubectl get pods">>, <<"kubectl get services">>,
                        <<"kubectl get ingress">>>>,
         Tags |-> <<<<"deploy">>, <<"k8s">>>>]),
   UIConfirm |-> FALSE]

\* The file systems at the start: each file is missing or holds its
\* configuration.
ConfigFileSystems ==
  { [f \in present |->
       IF f = HomeFile THEN ConfigOf("home")
       ELSE IF f = RepoFile THEN ConfigOf("repo")
       ELSE ConfigOf("custom")] :
    present \in SUBSET {HomeFile, RepoFile, CustomFile} }

\* A write that leaves an existing file as it is.
WriteFileIfAbsent(files, path, content) ==
  [f \in DOMAIN files \cup {path} |->
     IF f \in DOMAIN files THEN files[f] ELSE content]

\* os.WriteFile(path, data, 0644)
WriteFile(files, path, content) ==
  [f \in DOMAIN files \cup {path} |->
     IF f = path THEN content ELSE files[f]]

\* A SaveConfig that writes to the working directory.
ConfigPathInRepo(used) == RepoFile

\* SaveConfig: viper.ConfigFileUsed(), or the file in the home directory.
ConfigPath(used) == IF used = "" THEN HomeFile ELSE used

\* initConfig: the file named by --config, or the one searched for in the
\* home directory.
GlobalFile(cfgFile) == IF cfgFile # "" THEN cfgFile ELSE HomeFile

\* if _, err := os.Stat(".opsbrew.yaml"); err == nil
HasRepoConfig(files) == RepoFile \in DOMAIN files

\* The number of the next write among the invocations.
NextSaveNo == 1 + Cardinality({q \in Invocations : ps[q].saveNo > 0})

\* initConfig of invocation p: the global file is read into viper, or, when
\* the search in the home directory finds none, the default configuration is
\* written.  A missing --config file is passed over.
InitConfig(p) ==
  /\ ps[p].pc = "start"
  /\ LET global == GlobalFile(ps[p].cfgFile) IN
       IF global \in DOMAIN fs
         THEN /\ ps' = [ps EXCEPT ![p].pc = "ready",
                                  ![p].viper = [file |-> global,
                                                config |-> fs[global]]]
              /\ UNCHANGED fs
       ELSE IF ps[p].cfgFile # ""
         THEN /\ ps' = [ps EXCEPT ![p].pc = "ready",
                                  ![p].viper = [file |-> global,
                                                config |-> EmptyConfig]]
              /\ UNCHANGED fs
       ELSE /\ ps' = [ps EXCEPT ![p].pc = "ready"]
            /\ \/ fs' = WriteFile(fs, ConfigPath(ps[p].viper.file),
                                  DefaultConfig)
               \/ UNCHANGED fs

\* brew delete --confirm of invocation p, from GetRepoConfig to the call of
\* SaveConfig.
LoadAndDelete(p) ==
  /\ ps[p].pc = "ready"
  /\ UNCHANGED fs
  /\ \/ \* viper.ReadInConfig() fails on the per-directory file
        /\ HasRepoConfig(fs)
        /\ ps' = [ps EXCEPT ![p].pc = "done",
                            ![p].viper.file = RepoFile,
                            ![p].err = LoadFailed]
     \/ LET viper == IF HasRepoConfig(fs)
                       THEN [file |-> RepoFile, config |-> fs[RepoFile]]
                       ELSE ps[p].viper
            loaded == viper.config
            name == ps[p].name
        IN  IF ~Lookup(loaded.Recipes, name).exists
              THEN ps' = [ps EXCEPT ![p].pc = "done",
                                    ![p].viper = viper,
                                    ![p].loaded = loaded,
                                    ![p].cfg = loaded,
                                    ![p].err = NotFound(name)]
            ELSE IF ps[p].dryRun
              THEN ps' = [ps EXCEPT ![p].pc = "done",
                                    ![p].viper = viper,
                                    ![p].loaded = loaded,
                                    ![p].cfg = loaded,
                                    ![p].result = "reported"]
            ELSE ps' = [ps EXCEPT ![p].pc = "saving",
                                  ![p].viper = viper,
                                  ![p].loaded = loaded,
                                  ![p].cfg =
                                    [loaded EXCEPT !.Recipes =
                                       DeleteEntry(@, name)]]

\* config.SaveConfig(cfg) of invocation p and the return of the handler.
WriteConfig(p) ==
  /\ ps[p].pc = "saving"
  /\ \/ /\ fs' = WriteFile(fs, ConfigPath(ps[p].viper.file), ps[p].cfg)
        /\ ps' = [ps EXCEPT ![p].pc = "done",
                            ![p].result = "deleted",
                            ![p].saveNo = NextSaveNo]
     \/ /\ UNCHANGED fs
        /\ ps' = [ps EXCEPT ![p].pc = "done",
                            ![p].err = WriteFailed("failed to delete recipe: %w")]

InitInvocations ==
  /\ fs \in ConfigFileSystems
  /\ ps \in [Invocations ->
               [pc : {"start"}, cfgFile : {"", CustomFile}, dryRun : BOOLEAN,
                name : StoreNames,
                viper : {[file |-> "", config |-> EmptyConfig]},
                loaded : {EmptyConfig}, cfg : {EmptyConfig},
                err : {NoError}, result : {""}, saveNo : {0}]]
  /\ cmd = "brew delete"
  /\ args = <<>>
  /\ dryRun = FALSE
  /\ confirm = TRUE
  /\ flags = NoFlags
  /\ cfg = EmptyConfig
  /\ file = cfg
  /\ state = "Pending"
  /\ answer = <<>>
  /\ out = <<>>
  /\ procs = <<>>
  /\ err = NoError
  /\ entry = NoEntry
  /\ calls = <<>>
  /\ target = ""
  /\ output = <<>>
  /\ status = EmptyStatus
  /\ parsed = FALSE

NextInvocations ==
  \/ \E p \in Invocations :
       InitConfig(p) /\ UNCHANGED <<runVars, parseVars, storeVars, resolveVars>>
  \/ \E p \in Invocations :
       LoadAndDelete(p)
         /\ UNCHANGED <<runVars, parseVars, storeVars, resolveVars>>
  \/ \E p \in Invocations :
       WriteConfig(p) /\ UNCHANGED <<runVars, parseVars, storeVars, resolveVars>>

SpecInvocations == InitInvocations /\ [][NextInvocations]_vars

\* Invocation p has deleted its recipe and reported success.
Deleted(p) == ps[p].pc = "done" /\ ps[p].result = "deleted"

\* Invocations p and q both loaded the same configuration before either of
\* them saved, deleted different names, and p saved before q to the same file.
LoadLoadSaveSave(p, q) ==
  /\ p # q
  /\ Deleted(p) /\ Deleted(q)
  /\ ps[p].name # ps[q].name
  /\ ps[p].loaded = ps[q].loaded
  /\ ConfigPath(ps[p].viper.file) = ConfigPath(ps[q].viper.file)
  /\ ps[p].saveNo < ps[q].saveNo

\* C22: two invocations that each load and then save the configuration are
\* not serialized: after load, load, save, save the file holds only the
\* change of the second invocation, the recipe the first one deleted is back,
\* and both invocations reported success.
C22_SecondSaveWins ==
  \A p, q \in Invocations :
    LoadLoadSaveSave(p, q) =>
      LET saved == fs[ConfigPath(ps[q].viper.file)] IN
        /\ saved = ps[q].cfg
        /\ ps[p].name \in DOMAIN saved.Recipes
        /\ ps[q].name \notin DOMAIN saved.Recipes
        /\ ps[p].err = NoError /\ ps[q].err = NoError

C22_Witness ==
  \E p, q \in Invocations :
    /\ LoadLoadSaveSave(p, q)
    /\ ps[p].name \in DOMAIN fs[ConfigPath(ps[q].viper.file)].Recipes
    /\ ps[p].name \notin DOMAIN ps[p].cfg.Recipes

\* Invocation p takes the step.
Steps(p) == ps'[p] # ps[p]

\* C23: an invocation with --dry-run writes neither the configuration file
\* nor any other file.
C23_DryRunWritesNoFile ==
  [][\A p \in Invocations : (ps[p].dryRun /\ Steps(p)) => fs' = fs]_vars

\* The global file of invocation p, and the file the claim expects it to
\* work on.
GlobalOf(p) == IF ps[p].cfgFile # "" THEN ps[p].cfgFile ELSE HomeFile

ExpectedFile(p) == IF RepoFile \in DOMAIN fs THEN RepoFile ELSE GlobalOf(p)

Unsuccessful ==
  {k \in 1..Len(procs) : procs[k].status \in {"nonzero", "nostart"}}

\* C24: when a spawned process exits non-zero or cannot be started the
\* subcommand returns an error, and it reports success only if every process
\* it spawned exited zero.
C24_SuccessMeansAllZero ==
  /\ (Unsuccessful # {} /\ state # "Executing") =>
       state = "Failed" /\ err # NoError
  /\ state = "Completed" =>
       \A k \in 1..Len(procs) : procs[k].status = "zero"

\* The words of the command line that WouldRun prints after "Would run: ".
CommandLine(c, t, a, fl) ==
  CASE c = "kctx" ->
         <<<<"kubectl">>, <<"config">>, <<"use-context">>, <<t>>>>
    [] c = "kns" ->
         <<<<"kubectl">>, <<"config">>, <<"set-context">>, <<"--current">>,
           <<"--namespace=", t>>>>
    [] c = "klogs" ->
         <<<<"kubectl">>, <<"logs">>, <<t>>>> \o
         (IF fl.follow THEN <<<<"-f">>>> ELSE <<>>) \o
         (IF fl.tail > 0 THEN <<<<"--tail=", Decimal(fl.tail)>>>> ELSE <<>>)
    [] c = "kexec" ->
         <<<<"kubectl">>, <<"exec">>, <<"-it">>, <<t>>, <<"--">>>> \o
         SplitSpace(ExecCommand(a), 1, <<>>)
    [] c = "git checkout" -> <<<<"git">>, <<"checkout">>, <<t>>>>

\* C28: the command line printed under --dry-run names the same binary and
\* the same arguments, in order, as the process that the subcommand spawns
\* for the same inputs without --dry-run.
C28_WouldRunIsWhatRuns ==
  (cmd \in ResolveCmds /\ state \in {"Completed", "Failed"} /\ procs # <<>>) =>
    procs[Len(procs)].argv = CommandLine(cmd, target, args, flags)

(***************************************************************************)
(* Lines read at the prompts.                                              *)
(***************************************************************************)
\* The line that the step reads from standard input.
LineRead == answer'[Len(answer')]

\* The step reports a failed read.
ReadErrorReported ==
  /\ Len(out') > Len(out)
  /\ out'[Len(out')].fmt = "Error reading input: %v"

\* C26: brew save reads the commands one per line until an empty line; the
\* empty line ends the entry without an error, and every other line is kept
\* whole, words separated by blanks included, in entry order.
C26_LinesKeptUntilEmptyLine ==
  [][(/\ cmd = "brew save"
      /\ state = "ReadingCommands"
      /\ Len(answer') = Len(answer) + 1
      /\ ~LineRead.eof)
     => IF LineRead.line = <<>>
          THEN state' # "ReadingCommands" /\ ~ReadErrorReported
        ELSE /\ entry'.Entered = Append(entry.Entered, LineRead.line)
             /\ state' = "ReadingCommands"]_vars

\* The confirmation prompts.
PromptCmds == {"git sync", "brew run", "brew delete"}

\* The answer line says y or yes, in any case, as its only or first word.
AnswersYes(in) == IsYes(Scanln(in).value)

\* C27: the confirmation prompts of git sync, brew run and brew delete treat
\* an answer line alike: on each line (y, yes in any case, another word, an
\* empty line, the end of the input) either all three proceed or all three end
\* cancelled without an error.  git sync proceeds exactly on the lines that
\* AnswersYes describes and cancels on all others.
C27_PromptsAgree ==
  [][(/\ cmd \in PromptCmds
      /\ state = "AwaitingConfirmation"
      /\ Len(answer') = Len(answer) + 1)
     => IF AnswersYes(LineRead)
          THEN state' # "Cancelled" /\ ~ReadErrorReported
        ELSE state' = "Cancelled" /\ err' = NoError]_vars

(***************************************************************************)
(* The status report.                                                      *)
(***************************************************************************)
\* The report has a line for the file.
Listed(f) ==
  \E j \in 1..Len(out) :
    out[j].fmt \in {"  %s", "  %s\n"} /\ out[j].args = <<ArgT(f.Path)>>

SaysClean == \E j \in 1..Len(out) : out[j].fmt = "Working tree clean"

\* C29: DisplayStatus lists every file of each of the six buckets, prints
\* 'Working tree clean' exactly when all six are empty, and so every report
\* has a file line or 'Working tree clean'.
C29_ReportListsEveryFile ==
  (cmd = "git status" /\ state = "Completed") =>
    /\ \A b \in Buckets : \A k \in 1..Len(status[b]) : Listed(status[b][k])
    /\ SaysClean <=> \A b \in Buckets : status[b] = <<>>
    /\ SaysClean \/ \E b \in Buckets : \E k \in 1..Len(status[b]) :
                      Listed(status[b][k])

(***************************************************************************)
(* init: templates.InitializeTemplate.  A path is the sequence of its      *)
(* components, <<>> is "."; the file system maps the paths that exist to   *)
(* their kind and content.                                                 *)
(***************************************************************************)
\* GetAvailableTemplates(): the name of each template and the path of its one
\* file.
TemplateFiles ==
  ("github-actions" :> <<".github", "workflows", "ci.yml">>) @@
  ("k8s-deployment" :> <<"deployment.yaml">>) @@
  ("k8s-service" :> <<"service.yaml">>) @@
  ("k8s-pod" :> <<"pod.yaml">>) @@
  ("k8s-configmap" :> <<"configmap.yaml">>) @@
  ("dockerfile" :> <<"Dockerfile">>)

TemplateNames == DOMAIN TemplateFiles \cup {"unknown"}

ProjectNames == {"", "app"}

OutputDirs == {"", "out"}

InitArgs ==
  {<<>>} \cup {<<t>> : t \in TemplateNames}
         \cup {<<t, n>> : t \in TemplateNames, n \in ProjectNames}

InitFlags ==
  {[NoFlags EXCEPT !.output = o, !.force = f] : o \in OutputDirs, f \in BOOLEAN}

\* tmpl.Execute(f, data): the content written for a template and a project.
Rendered(templateName, projectName) ==
  [template |-> templateName, ServiceName |-> projectName]

Directory == [kind |-> "dir", content |-> <<>>]

OldFile == [kind |-> "file", content |-> <<"old">>]

\* The directory the files go to.
OutputDir(projectName, outputDir) ==
  IF outputDir # "" THEN <<outputDir>>
  ELSE IF projectName # "" THEN <<projectName>>
  ELSE <<>>

\* filepath.Join(outputDir, file.Path) and filepath.Dir(filePath).
JoinPath(dir, path) == dir \o path

Dir(path) == SubSeq(path, 1, Len(path) - 1)

\* The directories on the way to dir, dir included.
Prefixes(dir) == {SubSeq(dir, 1, k) : k \in 1..Len(dir)}

\* An os.Stat that finds no file.
ExistsNever(files, path) == FALSE

\* _, err := os.Stat(filePath); err == nil
Exists(files, path) == path \in DOMAIN files

\* os.MkdirAll(dir): it cannot succeed when a file is in the way, and it has
\* nothing to do when the directories exist.
MkdirAllBlocked(files, dir) ==
  \E d \in Prefixes(dir) : d \in DOMAIN files /\ files[d].kind # "dir"

MkdirAllDone(files, dir) ==
  \A d \in Prefixes(dir) : d \in DOMAIN files /\ files[d].kind = "dir"

MkdirAll(files, dir) ==
  [f \in DOMAIN files \cup Prefixes(dir) |->
     IF f \in DOMAIN files THEN files[f] ELSE Directory]

\* The file systems at the start: nothing, or what a former init made, or a
\* directory at the place of a template file.
InitFileSystems ==
  {<<>>} \cup
  { MkdirAll(<<>>, Dir(JoinPath(dir, TemplateFiles[t]))) @@
      (JoinPath(dir, TemplateFiles[t]) :> x) :
      t \in DOMAIN TemplateFiles,
      dir \in {<<>>, <<"app">>, <<"out">>},
      x \in {OldFile, Directory} } \cup
  { (<<d>> :> x) : d \in {"app", "out", ".github"}, x \in {OldFile, Directory} }

InitError(cause) == Msg("failed to initialize template: %w", <<ArgW(cause)>>)

\* templates.InitializeTemplate returns the error.
InitFails(files, cause) ==
  /\ fs' = files
  /\ err' = InitError(cause)
  /\ state' = "Failed"
  /\ UNCHANGED out

\* templates.InitializeTemplate(templateName, projectName, outputDir, force,
\* cfg) and the return of initCmd.RunE.
InitializeTemplate(templateName, projectName, outputDir, force) ==
  IF templateName \notin DOMAIN TemplateFiles
    THEN InitFails(fs, "template '%s' not found")
  ELSE
    LET dir == OutputDir(projectName, outputDir)
        filePath == JoinPath(dir, TemplateFiles[templateName])
        made == MkdirAll(fs, dir)
        ready == MkdirAll(made, Dir(filePath))
        written(content) ==
          [f \in DOMAIN ready \cup {filePath} |->
             IF f = filePath THEN [kind |-> "file", content |-> content]
             ELSE ready[f]]
    IN  \/ /\ ~MkdirAllDone(fs, dir)
           /\ InitFails(fs, "failed to create output directory: %w")
        \/ /\ ~MkdirAllBlocked(fs, dir)
           /\ IF Exists(made, filePath) /\ ~force
                THEN InitFails(made,
                               "file %s already exists (use --force to overwrite)")
              ELSE \/ /\ ~MkdirAllDone(made, Dir(filePath))
                      /\ InitFails(made, "failed to create directory %s: %w")
                   \/ /\ ~MkdirAllBlocked(made, Dir(filePath))
                      /\ \/ InitFails(ready, "failed to create file %s: %w")
                         \/ /\ ~(filePath \in DOMAIN ready
                                 /\ ready[filePath].kind = "dir")
                            /\ \/ InitFails(written(<<>>),
                                            "failed to execute template for %s: %w")
                               \/ InitFails(written(Rendered(templateName,
                                                             projectName)),
                                            "failed to set permissions for %s: %w")
                               \/ /\ fs' = written(Rendered(templateName,
                                                            projectName))
                                  /\ err' = NoError
                                  /\ out' = out \o
                                       <<Msg("Project initialized successfully!",
                                             <<>>)>>
                                  /\ state' = "Completed"

\* initCmd.RunE up to the call of templates.InitializeTemplate.
InitCmd ==
  /\ state = "Pending"
  /\ cmd = "init"
  /\ IF Len(args) < 1
       THEN /\ err' = Msg("template name is required", <<>>)
            /\ state' = "Error"
            /\ UNCHANGED out
     ELSE \/ \* config.GetRepoConfig() fails
             /\ err' = Msg("failed to load config: %w", <<ArgW("config")>>)
             /\ state' = "Error"
             /\ UNCHANGED out
          \/ IF dryRun
               THEN /\ out' = out \o
                        <<Msg("Would initialize template: %s", <<ArgS(args[1])>>)>> \o
                        (IF Len(args) > 1 /\ args[2] # ""
                           THEN <<Msg("Project name: %s", <<ArgS(args[2])>>)>>
                           ELSE <<>>) \o
                        (IF flags.output # ""
                           THEN <<Msg("Output directory: %s",
                                      <<ArgS(flags.output)>>)>>
                           ELSE <<>>)
                    /\ state' = "Reported"
                    /\ UNCHANGED err
             ELSE /\ state' = "Initializing"
                  /\ UNCHANGED <<out, err>>
  /\ UNCHANGED <<args, dryRun, confirm, cfg, answer, procs, fs>>

\* The project name initCmd passes on.
ProjectName == IF Len(args) > 1 THEN args[2] ELSE ""

CallInitializeTemplate ==
  /\ state = "Initializing"
  /\ cmd = "init"
  /\ InitializeTemplate(args[1], ProjectName, flags.output, flags.force)
  /\ UNCHANGED <<args, dryRun, confirm, cfg, answer, procs>>

InitInit ==
  /\ cmd = "init"
  /\ args \in InitArgs
  /\ flags \in InitFlags
  /\ dryRun \in BOOLEAN
  /\ fs \in InitFileSystems
  /\ ps = <<>>
  /\ confirm = FALSE
  /\ cfg = [Recipes |-> <<>>, UIConfirm |-> FALSE]
  /\ file = cfg
  /\ state = "Pending"
  /\ answer = <<>>
  /\ out = <<>>
  /\ procs = <<>>
  /\ err = NoError
  /\ entry = NoEntry
  /\ calls = <<>>
  /\ target = ""
  /\ output = <<>>
  /\ status = EmptyStatus
  /\ parsed = FALSE

NextInit ==
  \/ InitCmd /\ UNCHANGED <<ps, parseVars, storeVars, resolveVars>>
  \/ CallInitializeTemplate
       /\ UNCHANGED <<ps, parseVars, storeVars, resolveVars>>

SpecInit == InitInit /\ [][NextInit]_vars

(***************************************************************************)
(* Vocabulary of the init claim.                                           *)
(***************************************************************************)
KnownTemplate == Len(args) > 0 /\ args[1] \in DOMAIN TemplateFiles

\* The path of the template's file for the arguments of the invocation.
TargetPath ==
  JoinPath(OutputDir(ProjectName, flags.output), TemplateFiles[args[1]])

AlreadyExists ==
  InitError("file %s already exists (use --force to overwrite)")

\* C30: InitializeTemplate without force never overwrites or truncates what
\* exists at the path of a template file and fails with 'already exists'; on
\* an unknown template name it fails without creating a directory or a file;
\* with force an existing file is replaced by the rendered template.
C30_ExistingFileNeedsForce ==
  [][(cmd = "init" /\ state = "Initializing") =>
       IF ~KnownTemplate
         THEN /\ fs' = fs
              /\ state' = "Failed"
              /\ err' = InitError("template '%s' not found")
       ELSE IF TargetPath \notin DOMAIN fs THEN err' # AlreadyExists
       ELSE IF ~flags.force
         THEN /\ fs' = fs
              /\ state' = "Failed"
              /\ err' = AlreadyExists
       ELSE /\ err' # AlreadyExists
            /\ (err' = NoError /\ fs[TargetPath].kind = "file") =>
                 /\ state' = "Completed"
                 /\ fs'[TargetPath] =
                      [kind |-> "file",
                       content |-> Rendered(args[1], ProjectName)]
                 /\ \A f \in DOMAIN fs \ {TargetPath} :
                      f \in DOMAIN fs' /\ fs'[f] = fs[f]]_vars

C30_Witness ==
  /\ cmd = "init"
  /\ state = "Failed"
  /\ KnownTemplate
  /\ ~flags.force
  /\ err = AlreadyExists
  /\ TargetPath \in DOMAIN fs
  /\ fs[TargetPath] = OldFile

====
